---------------------------- MODULE Spec2Model ----------------------------
(***************************************************************************)
(* Galactic Parallax image-search API: aggregation, caching and            *)
(* pagination engine.                                                      *)
(*                                                                         *)
(* Time is Date.now() in milliseconds.  Strings that the code hashes,      *)
(* normalises or measures (queries, cache-key JSON) are sequences of       *)
(* character codes; enumerations (orientation, engine keys, user ids) are  *)
(* TLA+ strings.  The absent/undefined value of an optional number is 0:   *)
(* every use in the code (`x || d`, `x && ...`) treats undefined, NaN and  *)
(* 0 alike.  An undefined nextStartIndex/previousStartIndex is 0 as well   *)
(* (a defined one is at least 1).                                          *)
(***************************************************************************)
EXTENDS Integers, Sequences, FiniteSets, TLC

VARIABLES
  now,                 \* Date.now()
  aggregated_results,  \* D1 table aggregated_results: aggId -> row
  result_items,        \* D1 table result_items, in rowid order
  braveRaw,            \* BraveSearchEngine.rawResultsCache
  serperRaw,           \* SerperSearchEngine.rawResultsCache
  cache,               \* CacheService.cache
  env,                 \* the configured API keys (Bindings)
  last,                \* the operation just performed, its upstream calls and response
  hist,                \* history of upstream fetches per raw-cache key (observation only)
  ops,                 \* number of requests served so far (observation only)
  served,              \* the /images requests served, with their cache keys (observation only)
  pin,                 \* input of the pure-function specifications
  pout,                \* output of the pure-function specifications
  inflight             \* the requests being served, each at its await point

vars == <<now, aggregated_results, result_items, braveRaw, serperRaw, cache, env,
          last, hist, ops, served, pin, pout, inflight>>

-----------------------------------------------------------------------------
(* Bounds *)

MaxStart == 5
MaxCount == 3
MaxTotal == 5

\* the clock takes the values w * (one week) + d, w <= MaxWeeks, d <= MaxDrift
MaxWeeks == 1
MaxDrift == 1

\* upstream fetches recorded per raw-cache key
MaxFetches == 2

\* requests served in one behaviour
MaxOps == 2

\* image urls and lengths of the upstream answers of the merge specification
MaxUrl == 3
MaxGoogleLen == 2
MaxBraveLen == 1
MaxSerperLen == 1

-----------------------------------------------------------------------------
(* Helpers *)

Ceil(a, b) == (a + b - 1) \div b

Max(a, b) == IF a >= b THEN a ELSE b

Min(a, b) == IF a <= b THEN a ELSE b

\* Array.prototype.slice(from, to) with 0-based from/to >= 0
Slice(s, from, to) ==
  LET hi == Min(to, Len(s))
  IN  IF from >= hi THEN <<>> ELSE SubSeq(s, from + 1, hi)

-----------------------------------------------------------------------------
(* Pagination windows, one per place the code computes them *)

\* aggregatedSearchService.ts:60-76
AggPagination(request, totalResults) ==
  LET count == IF request.count > 0 THEN request.count ELSE 10
      start == IF request.start > 0 THEN request.start ELSE 1
      totalPages == IF count > 0 THEN Ceil(totalResults, count) ELSE 1
      currentPage == IF count > 0 THEN Ceil(start, count) ELSE 1
  IN  [currentPage |-> currentPage,
       totalResults |-> totalResults,
       resultsPerPage |-> count,
       totalPages |-> totalPages,
       hasNextPage |-> currentPage < totalPages,
       hasPreviousPage |-> currentPage > 1,
       nextStartIndex |-> IF currentPage < totalPages THEN start + count ELSE 0,
       previousStartIndex |-> IF currentPage > 1 THEN Max(1, start - count) ELSE 0]

\* braveSearchEngine.ts:239-246, serperSearchEngine.ts:265-272: the window of
\* the early return for an empty filtered set
BulkEmptyPagination(request) ==
  [currentPage |-> 1,
   totalResults |-> 0,
   resultsPerPage |-> IF request.count # 0 THEN request.count ELSE 10,
   totalPages |-> 0,
   hasNextPage |-> FALSE,
   hasPreviousPage |-> FALSE,
   nextStartIndex |-> 0,
   previousStartIndex |-> 0]

\* braveSearchEngine.ts:228-284, serperSearchEngine.ts:254-310
BulkPagination(request, totalResults) ==
  IF totalResults = 0 THEN BulkEmptyPagination(request)
  ELSE
    LET requestedCount == IF request.count # 0 THEN request.count ELSE 10
        startIndex == IF request.start # 0 THEN request.start ELSE 1
        currentPage == Ceil(startIndex, requestedCount)
        totalPages == Ceil(totalResults, requestedCount)
    IN  [currentPage |-> currentPage,
         totalResults |-> totalResults,
         resultsPerPage |-> requestedCount,
         totalPages |-> totalPages,
         hasNextPage |-> currentPage < totalPages,
         hasPreviousPage |-> currentPage > 1,
         nextStartIndex |-> IF currentPage < totalPages THEN startIndex + requestedCount ELSE 0,
         previousStartIndex |-> IF currentPage > 1 THEN Max(1, startIndex - requestedCount) ELSE 0]

\* googleSearchEngine.ts convertToIntermediaryFormat: totalResults is the
\* provider's reported total
GooglePagination(request, totalResults) ==
  LET resultsPerPage == IF request.count # 0 THEN request.count ELSE 10
      currentStartIndex == IF request.start # 0 THEN request.start ELSE 1
      currentPage == Ceil(currentStartIndex, resultsPerPage)
      totalPages == Ceil(totalResults, resultsPerPage)
  IN  [currentPage |-> currentPage,
       totalResults |-> totalResults,
       resultsPerPage |-> resultsPerPage,
       totalPages |-> totalPages,
       hasNextPage |-> currentPage < totalPages,
       hasPreviousPage |-> currentPage > 1,
       nextStartIndex |-> IF currentPage < totalPages THEN currentStartIndex + resultsPerPage ELSE 0,
       previousStartIndex |-> IF currentPage > 1 THEN Max(1, currentStartIndex - resultsPerPage) ELSE 0]

-----------------------------------------------------------------------------
(* Strings as sequences of character codes *)

\* String.prototype.toLowerCase on the ASCII range
ToLower(s) == [i \in 1..Len(s) |-> IF s[i] >= 65 /\ s[i] <= 90 THEN s[i] + 32 ELSE s[i]]

RECURSIVE TrimLeft(_)
TrimLeft(s) == IF s # <<>> /\ Head(s) = 32 THEN TrimLeft(Tail(s)) ELSE s

RECURSIVE TrimRight(_)
TrimRight(s) ==
  IF s # <<>> /\ s[Len(s)] = 32 THEN TrimRight(SubSeq(s, 1, Len(s) - 1)) ELSE s

\* String.prototype.trim (the only whitespace of the model is the space, code 32)
Trim(s) == TrimRight(TrimLeft(s))

\* the text of an orientation value, dflt when it is undefined
OrientationText(orientation, dflt) ==
  CASE orientation = "landscape" -> <<108, 97, 110, 100, 115, 99, 97, 112, 101>>
    [] orientation = "portrait" -> <<112, 111, 114, 116, 114, 97, 105, 116>>
    [] orientation = "none" -> dflt
    [] OTHER -> <<105, 110, 118, 97, 108, 105, 100>>

-----------------------------------------------------------------------------
(* Aggregator: deduplicate and rank *)

RECURSIVE DedupLoop(_, _, _)
DedupLoop(results, seen, deduped) ==
  IF results = <<>> THEN deduped
  ELSE LET item == Head(results)
       IN  IF item.url \notin seen
             THEN DedupLoop(Tail(results), seen \cup {item.url}, Append(deduped, item))
             ELSE DedupLoop(Tail(results), seen, deduped)

\* the loop without its `seen` test
KeepEveryResult(results) == results

\* the loop run from the end of the list: the last occurrence of a url survives
DedupKeepsLast(results) ==
  LET F[i \in 0..Len(results)] ==
        IF i = 0 THEN <<>>
        ELSE IF \E j \in (i + 1)..Len(results) : results[j].url = results[i].url
          THEN F[i - 1] ELSE Append(F[i - 1], results[i])
  IN  F[Len(results)]

\* aggregatedSearchService.ts:212-222
deduplicateResults(results) == DedupLoop(results, {}, <<>>)

\* aggregatedSearchService.ts:227-228: (a.width && a.height) ? a.width * a.height : 0
Resolution(a) == IF a.width # 0 /\ a.height # 0 THEN a.width * a.height ELSE 0

\* the comparator with its operands swapped: ascending resolution
RankAscending(a, b) == Resolution(a) - Resolution(b)

\* aggregatedSearchService.ts:226-233: the comparator handed to Array.prototype.sort
RankCompare(a, b) ==
  LET aRes == Resolution(a)
      bRes == Resolution(b)
  IN  IF aRes = bRes THEN 0
      ELSE IF aRes = 0 THEN 1
      ELSE IF bRes = 0 THEN -1
      ELSE bRes - aRes

\* Array.prototype.sort is stable (ECMAScript 2019): an element is placed
\* before the first already-placed element it compares strictly less than
RECURSIVE InsertSorted(_, _)
InsertSorted(sorted, x) ==
  IF sorted = <<>> THEN <<x>>
  ELSE IF RankCompare(x, Head(sorted)) < 0 THEN <<x>> \o sorted
  ELSE <<Head(sorted)>> \o InsertSorted(Tail(sorted), x)

RECURSIVE SortLoop(_, _)
SortLoop(results, sorted) ==
  IF results = <<>> THEN sorted
  ELSE SortLoop(Tail(results), InsertSorted(sorted, Head(results)))

\* aggregatedSearchService.ts:224-234
optimizeResults(results) == SortLoop(results, <<>>)

-----------------------------------------------------------------------------
(* Program constants *)

\* aggregatedSearchService.ts:7
GOOGLE_PAGE_COUNT == 5

\* aggregatedSearchService.ts:53: 1000 * 60 * 60 * 24 * 7
AGG_TTL_MS == 604800000

\* braveSearchEngine.ts:32, serperSearchEngine.ts:61
RAW_CACHE_TTL == 604800000

\* braveSearchEngine.ts:97, serperSearchEngine.ts:126: size above which a set sweeps
RAW_CACHE_SWEEP_SIZE == 50

\* braveSearchEngine.ts:122, serperSearchEngine.ts:152: batch size of a bulk fetch
BULK_BATCH == 100

-----------------------------------------------------------------------------
(* Provider adapters *)

Fail(msg) == [success |-> FALSE, error |-> msg]

\* {google,brave,serper}SearchEngine.ts validateSearchRequest; maxLen and
\* maxCount are the limits of the engine
validateSearchRequest(request, maxLen, maxCount) ==
  IF Len(Trim(request.query)) = 0 THEN "Search query is required"
  ELSE IF Len(request.query) > maxLen THEN "Search query too long"
  ELSE IF request.count # 0 /\ (request.count < 1 \/ request.count > maxCount)
    THEN "Count out of range"
  ELSE IF request.start # 0 /\ request.start < 1
    THEN "Start index must be greater than 0"
  ELSE IF request.orientation \notin {"none", "landscape", "portrait"}
    THEN "Orientation must be either landscape or portrait"
  ELSE "ok"

MaxQueryLen(engine) == IF engine = "brave" THEN 400 ELSE 200

MaxEngineCount(engine) == IF engine = "google" THEN 10 ELSE 100

\* an upstream HTTP request, as the provider sees it
UpstreamCall(engine, request, num, start) ==
  [engine |-> engine, query |-> request.query, orientation |-> request.orientation,
   tbs |-> request.tbs, num |-> num, start |-> start]

\* googleSearchEngine.ts convertToIntermediaryFormat: the items of a page
GoogleItems(items, currentStartIndex) ==
  [i \in 1..Len(items) |->
     [id |-> <<"google", currentStartIndex + i - 1>>, url |-> items[i].url,
      width |-> items[i].width, height |-> items[i].height, sourceEngine |-> "none"]]

\* GoogleSearchEngine.search.  up is what the upstream does when asked:
\* ~up.ok is a non-2xx status or a thrown fetch; otherwise Google serves the
\* window [start, start+num) of its hit list up.corpus and reports up.total hits
GoogleSearch(request, up) ==
  LET v == validateSearchRequest(request, MaxQueryLen("google"), MaxEngineCount("google"))
      num == IF request.count # 0 THEN request.count ELSE 10
      start == IF request.start # 0 THEN request.start ELSE 1
      call == UpstreamCall("google", request, num, start)
  IN  IF v # "ok" THEN [resp |-> Fail(v), calls |-> <<>>]
      ELSE IF ~up.ok THEN [resp |-> Fail("Google API error"), calls |-> <<call>>]
      ELSE [resp |-> [success |-> TRUE,
                      results |-> GoogleItems(Slice(up.corpus, start - 1, start - 1 + num), start),
                      pagination |-> GooglePagination(request, up.total),
                      searchEngine |-> "Google Custom Search"],
            calls |-> <<call>>]

\* braveSearchEngine.ts:68-70, serperSearchEngine.ts:97-99
createRawResultsCacheKey(engine, query, orientation) ==
  (IF engine = "brave" THEN <<98, 114, 97, 118, 101, 95, 114, 97, 119, 58>>
                       ELSE <<115, 101, 114, 112, 101, 114, 95, 114, 97, 119, 58>>)
    \o ToLower(Trim(query)) \o <<58>> \o OrientationText(orientation, <<97, 110, 121>>)

\* the age test with >= : a set exactly one TTL old is already expired
RawExpiredAtTtl(raw, cacheKey, t) == t - raw[cacheKey].fetchedAt >= RAW_CACHE_TTL

\* getCachedRawResults: the set stored under cacheKey, expired when older than the TTL
RawExpired(raw, cacheKey, t) == t - raw[cacheKey].fetchedAt > RAW_CACHE_TTL

RawLookupHit(raw, cacheKey, t) == cacheKey \in DOMAIN raw /\ ~RawExpired(raw, cacheKey, t)

\* a lookup that leaves an expired set where it is
LookupKeepsExpired(raw, cacheKey, t) == raw

\* the cache after getCachedRawResults: an expired set is deleted by the lookup
RawAfterLookup(raw, cacheKey, t) ==
  IF cacheKey \in DOMAIN raw /\ RawExpired(raw, cacheKey, t)
    THEN [k \in DOMAIN raw \ {cacheKey} |-> raw[k]]
    ELSE raw

\* setCachedRawResults: store, then sweep expired sets once the map is large
setCachedRawResults(raw, cacheKey, results, t) ==
  LET stored == [k \in DOMAIN raw \cup {cacheKey} |-> IF k = cacheKey THEN results ELSE raw[k]]
  IN  IF Cardinality(DOMAIN stored) > RAW_CACHE_SWEEP_SIZE
        THEN [k \in {x \in DOMAIN stored : ~(t - stored[x].fetchedAt > RAW_CACHE_TTL)} |-> stored[k]]
        ELSE stored

\* fetchFromBraveAPI / fetchFromSerperAPI: filter of the upstream items
BulkFilter(engine, request, item) ==
  /\ item.valid
  /\ \/ engine = "brave"
     \/ request.orientation = "none"
     \/ (request.orientation = "landscape") = (item.width > item.height)

\* Array.prototype.filter with BulkFilter
FilterItems(items, engine, request) ==
  LET Passes(item) == BulkFilter(engine, request, item)
  IN  SelectSeq(items, Passes)

\* fetchFromBraveAPI / fetchFromSerperAPI: the RawResultSet built from a 2xx answer
BulkConvert(engine, request, items, t) ==
  LET filtered == FilterItems(items, engine, request)
      allResults == [i \in 1..Len(filtered) |->
                       [id |-> <<engine, i>>, url |-> filtered[i].url,
                        width |-> IF engine = "brave" THEN 0 ELSE filtered[i].width,
                        height |-> IF engine = "brave" THEN 0 ELSE filtered[i].height,
                        sourceEngine |-> engine]]
  IN  [allResults |-> allResults, totalResults |-> Len(allResults),
       query |-> request.query, orientation |-> request.orientation, fetchedAt |-> t]

\* the page sliced from the 1-based start index taken as a 0-based offset
BulkPageOffByOne(engine, request, cached) ==
  IF cached.totalResults = 0
    THEN [success |-> TRUE, results |-> <<>>, pagination |-> BulkEmptyPagination(request),
          searchEngine |-> engine]
    ELSE
      LET requestedCount == IF request.count # 0 THEN request.count ELSE 10
          startIndex == IF request.start # 0 THEN request.start ELSE 1
          pageResults == Slice(cached.allResults, startIndex, startIndex + requestedCount)
          results == [i \in 1..Len(pageResults) |->
                        [pageResults[i] EXCEPT !.id = <<engine, startIndex + i - 1>>]]
      IN  [success |-> TRUE, results |-> results,
           pagination |-> BulkPagination(request, cached.totalResults),
           searchEngine |-> engine]

\* search(): the page served from a RawResultSet
BulkPage(engine, request, cached) ==
  IF cached.totalResults = 0
    THEN [success |-> TRUE, results |-> <<>>, pagination |-> BulkEmptyPagination(request),
          searchEngine |-> engine]
    ELSE
      LET requestedCount == IF request.count # 0 THEN request.count ELSE 10
          startIndex == IF request.start # 0 THEN request.start ELSE 1
          pageResults == Slice(cached.allResults, startIndex - 1, startIndex - 1 + requestedCount)
          results == [i \in 1..Len(pageResults) |->
                        [pageResults[i] EXCEPT !.id = <<engine, startIndex + i - 1>>]]
      IN  [success |-> TRUE, results |-> results,
           pagination |-> BulkPagination(request, cached.totalResults),
           searchEngine |-> engine]

\* BraveSearchEngine.search / SerperSearchEngine.search on the raw cache raw at
\* time t.  up is what the upstream does when asked: ~up.ok is a non-2xx
\* status or a thrown fetch, otherwise up.items is its answer
BulkSearch(engine, request, raw, up, t) ==
  LET v == validateSearchRequest(request, MaxQueryLen(engine), MaxEngineCount(engine))
      rawCacheKey == createRawResultsCacheKey(engine, request.query, request.orientation)
      looked == RawAfterLookup(raw, rawCacheKey, t)
      call == UpstreamCall(engine, request, BULK_BATCH, 0)
  IN  IF v # "ok" THEN [resp |-> Fail(v), raw |-> raw, calls |-> <<>>]
      ELSE IF RawLookupHit(raw, rawCacheKey, t)
        THEN [resp |-> BulkPage(engine, request, raw[rawCacheKey]), raw |-> raw, calls |-> <<>>]
      ELSE IF ~up.ok
        THEN [resp |-> Fail("search failed"), raw |-> looked, calls |-> <<call>>]
      ELSE LET fetched == BulkConvert(engine, request, up.items, t)
           IN  [resp |-> BulkPage(engine, request, fetched),
                raw |-> setCachedRawResults(looked, rawCacheKey, fetched, t),
                calls |-> <<call>>]

-----------------------------------------------------------------------------
(* Durable store (D1): aggregated_results and result_items *)

\* aggregatedSearchService.ts:242-245.  SHA-1 is taken to be collision free:
\* the id is the hashed text `${query}|${orientation || ''}|${tbs || ''}`
generateAggId(request) ==
  request.query \o <<124>> \o OrientationText(request.orientation, <<>>) \o <<124>> \o request.tbs

\* a lookup that never finds the row
NeverFound(agg, aggId) == FALSE

\* aggregatedSearchService.ts:142-151: the row, or "null"
HasAggregatedResult(agg, aggId) == aggId \in DOMAIN agg

RemoveRows(items, Drop(_)) ==
  LET Kept(r) == ~Drop(r)
  IN  SelectSeq(items, Kept)

\* INSERT OR REPLACE INTO result_items: id is the primary key, so a row with
\* the same id (of whatever agg_id) is deleted; the new row gets the next rowid
InsertOrReplaceItem(items, row) ==
  LET SameId(r) == r.id = row.id
  IN  Append(RemoveRows(items, SameId), row)

RECURSIVE InsertItems(_, _, _)
InsertItems(items, aggId, new) ==
  IF new = <<>> THEN items
  ELSE InsertItems(
         InsertOrReplaceItem(items,
           [id |-> Head(new).id, agg_id |-> aggId, url |-> Head(new).url,
            width |-> Head(new).width, height |-> Head(new).height,
            source_engine |-> Head(new).sourceEngine]),
         aggId, Tail(new))

\* rows of result_items deleted with their aggregated_results row
\* (schema.sql:28 FOREIGN KEY ... ON DELETE CASCADE)
CascadeDelete(items, aggIds) ==
  LET Orphan(r) == r.agg_id \in aggIds
  IN  RemoveRows(items, Orphan)

\* a batch whose replaced aggregated_results row leaves its items behind
StoreKeepsOldItems(db, result, items) ==
  [agg |-> [k \in DOMAIN db.agg \cup {result.id} |->
              IF k = result.id THEN result ELSE db.agg[k]],
   items |-> InsertItems(db.items, result.id, items)]

\* aggregatedSearchService.ts:97-129: one batch; replacing the aggregated_results
\* row deletes the old row, and with it its items
storeAggregatedResult(db, result, items) ==
  LET cleared == IF result.id \in DOMAIN db.agg
                   THEN CascadeDelete(db.items, {result.id}) ELSE db.items
  IN  [agg |-> [k \in DOMAIN db.agg \cup {result.id} |->
                  IF k = result.id THEN result ELSE db.agg[k]],
       items |-> InsertItems(cleared, result.id, items)]

ItemsOf(items, aggId) ==
  LET Other(r) == r.agg_id # aggId
  IN  RemoveRows(items, Other)

\* a page query whose offset is one row too far
PageSkipsOne(items, aggId, offset, limit) ==
  Slice(ItemsOf(items, aggId), offset + 1, offset + 1 + limit)

\* a page query that serves the last rows when the offset lies beyond them
LastRowsWhenBeyond(items, aggId, offset, limit) ==
  LET rows == ItemsOf(items, aggId)
  IN  IF offset >= Len(rows) THEN Slice(rows, Max(0, Len(rows) - limit), Len(rows))
      ELSE Slice(rows, offset, offset + limit)

\* aggregatedSearchService.ts:131-140: ORDER BY rowid ASC LIMIT ? OFFSET ?
getPaginatedResults(items, aggId, offset, limit) ==
  Slice(ItemsOf(items, aggId), offset, offset + limit)

\* aggregatedSearchService.ts:153-162
getTotalResults(items, aggId) == Len(ItemsOf(items, aggId))

\* aggregatedSearchService.ts:183-210: DELETE FROM aggregated_results WHERE user_id = ?
clearUserCache(db, userId) ==
  LET gone == {k \in DOMAIN db.agg : db.agg[k].user_id = userId}
  IN  [agg |-> [k \in DOMAIN db.agg \ gone |-> db.agg[k]],
       items |-> CascadeDelete(db.items, gone)]

-----------------------------------------------------------------------------
(* AggregatedSearchService *)

RECURSIVE Flatten(_)
Flatten(seqs) == IF seqs = <<>> THEN <<>> ELSE Head(seqs) \o Flatten(Tail(seqs))

\* a call of an adapter's search: the engine and the request it is handed
AdapterCall(engine, request) == [engine |-> engine, request |-> request]

\* Google pages that all ask for the first page
FirstPageEachTime(request, count, up) ==
  LET pageReq == [i \in 1..GOOGLE_PAGE_COUNT |->
                    [request EXCEPT !.count = count, !.start = 1]]
      page == [i \in 1..GOOGLE_PAGE_COUNT |-> GoogleSearch(pageReq[i], up)]
  IN  [results |-> Flatten([i \in 1..GOOGLE_PAGE_COUNT |->
                              IF page[i].resp.success THEN page[i].resp.results ELSE <<>>]),
       calls |-> Flatten([i \in 1..GOOGLE_PAGE_COUNT |-> page[i].calls]),
       asked |-> [i \in 1..GOOGLE_PAGE_COUNT |-> AdapterCall("google", pageReq[i])]]

\* aggregatedSearchService.ts:263-278: the Google pages of one aggregation
GooglePages(request, count, up) ==
  LET pageReq == [i \in 1..GOOGLE_PAGE_COUNT |->
                    [request EXCEPT !.count = count, !.start = 1 + (i - 1) * count]]
      page == [i \in 1..GOOGLE_PAGE_COUNT |-> GoogleSearch(pageReq[i], up)]
  IN  [results |-> Flatten([i \in 1..GOOGLE_PAGE_COUNT |->
                              IF page[i].resp.success THEN page[i].resp.results ELSE <<>>]),
       calls |-> Flatten([i \in 1..GOOGLE_PAGE_COUNT |-> page[i].calls]),
       asked |-> [i \in 1..GOOGLE_PAGE_COUNT |-> AdapterCall("google", pageReq[i])]]

\* an aggregation that gives up the results of all providers when Serper fails
AbortOnFailure(request, keys, bRaw, sRaw, up, t) ==
  LET count == IF request.count > 0 THEN request.count ELSE 10
      g == GooglePages(request, count, up.google)
      bulkReq == [request EXCEPT !.count = BULK_BATCH, !.start = 1]
      b == IF keys.BRAVE
             THEN BulkSearch("brave", bulkReq, bRaw, up.brave, t)
             ELSE [resp |-> Fail("not configured"), raw |-> bRaw, calls |-> <<>>]
      s == IF keys.SERPER
             THEN BulkSearch("serper", bulkReq, sRaw, up.serper, t)
             ELSE [resp |-> Fail("not configured"), raw |-> sRaw, calls |-> <<>>]
  IN  [results |-> IF s.resp.success
                     THEN g.results \o (IF b.resp.success THEN b.resp.results ELSE <<>>)
                            \o s.resp.results
                     ELSE <<>>,
       braveRaw |-> b.raw, serperRaw |-> s.raw,
       calls |-> g.calls \o b.calls \o s.calls,
       asked |-> g.asked
                   \o (IF keys.BRAVE THEN <<AdapterCall("brave", bulkReq)>> ELSE <<>>)
                   \o (IF keys.SERPER THEN <<AdapterCall("serper", bulkReq)>> ELSE <<>>)]

\* aggregatedSearchService.ts:254-313.  keys tells which API keys are configured;
\* up.google, up.brave, up.serper are what the upstreams do when asked
fetchFromEngines(request, keys, bRaw, sRaw, up, t) ==
  LET count == IF request.count > 0 THEN request.count ELSE 10
      g == GooglePages(request, count, up.google)
      bulkReq == [request EXCEPT !.count = BULK_BATCH, !.start = 1]
      b == IF keys.BRAVE
             THEN BulkSearch("brave", bulkReq, bRaw, up.brave, t)
             ELSE [resp |-> Fail("not configured"), raw |-> bRaw, calls |-> <<>>]
      s == IF keys.SERPER
             THEN BulkSearch("serper", bulkReq, sRaw, up.serper, t)
             ELSE [resp |-> Fail("not configured"), raw |-> sRaw, calls |-> <<>>]
  IN  [results |-> g.results
                     \o (IF b.resp.success THEN b.resp.results ELSE <<>>)
                     \o (IF s.resp.success THEN s.resp.results ELSE <<>>),
       braveRaw |-> b.raw, serperRaw |-> s.raw,
       calls |-> g.calls \o b.calls \o s.calls,
       asked |-> g.asked
                   \o (IF keys.BRAVE THEN <<AdapterCall("brave", bulkReq)>> ELSE <<>>)
                   \o (IF keys.SERPER THEN <<AdapterCall("serper", bulkReq)>> ELSE <<>>)]

\* aggregatedSearchService.ts:34-95 on the store db at time t
AggregatedSearch(request, userId, keys, db, bRaw, sRaw, up, t) ==
  LET aggId == generateAggId(request)
      miss == ~HasAggregatedResult(db.agg, aggId)
      fetched == fetchFromEngines(request, keys, bRaw, sRaw, up, t)
      deduped == deduplicateResults(fetched.results)
      optimized == optimizeResults(deduped)
      row == [id |-> aggId, query |-> request.query, orientation |-> request.orientation,
              tbs |-> request.tbs, created_at |-> t, expires_at |-> t + AGG_TTL_MS,
              user_id |-> userId]
      db2 == IF miss THEN storeAggregatedResult(db, row, optimized) ELSE db
      count == IF request.count > 0 THEN request.count ELSE 10
      start == IF request.start > 0 THEN request.start ELSE 1
      offset == start - 1
      results == getPaginatedResults(db2.items, aggId, offset, count)
      totalResults == getTotalResults(db2.items, aggId)
  IN  [resp |-> [success |-> TRUE, results |-> results,
                 pagination |-> AggPagination(request, totalResults),
                 searchEngine |-> "aggregated"],
       db |-> db2,
       braveRaw |-> IF miss THEN fetched.braveRaw ELSE bRaw,
       serperRaw |-> IF miss THEN fetched.serperRaw ELSE sRaw,
       calls |-> IF miss THEN fetched.calls ELSE <<>>,
       asked |-> IF miss THEN fetched.asked ELSE <<>>,
       miss |-> miss,
       raw |-> IF miss THEN fetched.results ELSE <<>>,
       deduped |-> IF miss THEN deduped ELSE <<>>,
       optimized |-> IF miss THEN optimized ELSE <<>>]

-----------------------------------------------------------------------------
(* Inputs *)

QueryA == <<97>>          \* "a"
QueryB == <<98>>          \* "b"
QueryAUpper == <<65, 32>> \* "A ", which normalises to "a"

Users == {"u1", "u2"}

G(u, w, h) == [url |-> u, width |-> w, height |-> h]

B(u, w, h, valid) == [url |-> u, width |-> w, height |-> h, valid |-> valid]

GoogleDown == [ok |-> FALSE, corpus |-> <<>>, total |-> 0]

GoogleHits == [ok |-> TRUE, corpus |-> <<G(1, 2, 1), G(2, 0, 3), G(1, 2, 2)>>, total |-> 3]

GoogleOther == [ok |-> TRUE, corpus |-> <<G(3, 1, 2), G(2, 2, 2)>>, total |-> 7]

BulkDown == [ok |-> FALSE, items |-> <<>>]

BraveHits == [ok |-> TRUE, items |-> <<B(2, 0, 0, TRUE), B(4, 0, 0, FALSE), B(5, 0, 0, TRUE)>>]

SerperHits == [ok |-> TRUE, items |-> <<B(5, 2, 1, TRUE), B(1, 2, 2, TRUE), B(6, 1, 2, TRUE)>>]

\* what the three upstreams may answer to the calls of one request
Ups ==
  { [google |-> GoogleHits, brave |-> BraveHits, serper |-> SerperHits],
    [google |-> GoogleOther, brave |-> BraveHits, serper |-> BulkDown],
    [google |-> GoogleDown, brave |-> BulkDown, serper |-> BulkDown] }

Envs == { [BRAVE |-> TRUE, SERPER |-> TRUE], [BRAVE |-> FALSE, SERPER |-> TRUE] }

Paging == { <<0, 0>>, <<2, 3>> }

AggRequests ==
  { [query |-> q, orientation |-> "none", count |-> p[1], start |-> p[2], tbs |-> <<>>] :
      q \in {QueryA, QueryB}, p \in Paging }

-----------------------------------------------------------------------------
(* Observation of upstream fetches by raw-cache key *)

BulkEngines == {"brave", "serper"}

HistKey(call) == <<call.engine, createRawResultsCacheKey(call.engine, call.query, call.orientation)>>

\* hist after an operation that made the upstream calls `calls` at time t and
\* left the raw caches bRaw, sRaw
HistAfter(h, calls, bRaw, sRaw, t) ==
  LET bulk == {i \in 1..Len(calls) : calls[i].engine \in BulkEngines}
      keys == {HistKey(calls[i]) : i \in bulk}
      RawOf(k) == IF k[1] = "brave" THEN bRaw ELSE sRaw
      Entry(k) ==
        IF k \in DOMAIN h
          THEN [h[k] EXCEPT !.fetches = @ + 1]
          ELSE [fetches |-> 1, firstAt |-> t, firstOk |-> k[2] \in DOMAIN RawOf(k),
                firstSet |-> IF k[2] \in DOMAIN RawOf(k) THEN RawOf(k)[k[2]]
                             ELSE [allResults |-> <<>>, totalResults |-> 0, query |-> <<>>,
                                   orientation |-> "none", fetchedAt |-> t]]
  IN  [k \in DOMAIN h \cup keys |-> IF k \in keys THEN Entry(k) ELSE h[k]]

HistBounded(h) == \A k \in DOMAIN h : h[k].fetches <= MaxFetches

-----------------------------------------------------------------------------
(* The aggregated search service on its own *)

EmptyMap == [k \in {} |-> 0]

NoLast == [op |-> "init"]

InitAgg ==
  /\ now = 0
  /\ aggregated_results = EmptyMap
  /\ result_items = <<>>
  /\ braveRaw = EmptyMap
  /\ serperRaw = EmptyMap
  /\ cache = EmptyMap
  /\ env \in Envs
  /\ last = NoLast
  /\ hist = EmptyMap
  /\ ops = 0
  /\ served = {}
  /\ pin = 0
  /\ pout = 0
  /\ inflight = <<>>

\* time passes
Tick ==
  /\ \E d \in {1, AGG_TTL_MS} :
       /\ (now + d) \div AGG_TTL_MS <= MaxWeeks
       /\ (now + d) % AGG_TTL_MS <= MaxDrift
       /\ now' = now + d
  /\ UNCHANGED <<aggregated_results, result_items, braveRaw, serperRaw, cache, env,
                 last, hist, ops, served, pin, pout, inflight>>

\* the upstream answers that matter to a request: none when the set is persisted
UpsFor(request) ==
  IF HasAggregatedResult(aggregated_results, generateAggId(request))
    THEN {CHOOSE up \in Ups : TRUE} ELSE Ups

\* AggregatedSearchService.search(request, userId)
AggSearch ==
  /\ ops < MaxOps
  /\ \E request \in AggRequests, userId \in Users :
       \E up \in UpsFor(request) :
         \E r \in {AggregatedSearch(request, userId, env,
                                    [agg |-> aggregated_results, items |-> result_items],
                                    braveRaw, serperRaw, up, now)} :
           \E h \in {HistAfter(hist, r.calls, r.braveRaw, r.serperRaw, now)} :
             /\ HistBounded(h)
             /\ ops' = ops + 1
             /\ aggregated_results' = r.db.agg
             /\ result_items' = r.db.items
             /\ braveRaw' = r.braveRaw
             /\ serperRaw' = r.serperRaw
             /\ hist' = h
             /\ last' = [op |-> "aggregated", request |-> request, userId |-> userId,
                         aggId |-> generateAggId(request), resp |-> r.resp, calls |-> r.calls,
                         asked |-> r.asked, miss |-> r.miss,
                         stale |-> /\ generateAggId(request) \in DOMAIN aggregated_results
                                   /\ aggregated_results[generateAggId(request)].expires_at < now,
                         raw |-> r.raw, deduped |-> r.deduped,
                         optimized |-> r.optimized]
             /\ UNCHANGED <<now, cache, env, served, pin, pout, inflight>>

\* AggregatedSearchService.clearUserCache(userId)
ClearUserCache ==
  \E userId \in Users :
    LET db == clearUserCache([agg |-> aggregated_results, items |-> result_items], userId)
    IN  /\ ops < MaxOps
        /\ ops' = ops + 1
        /\ aggregated_results' = db.agg
        /\ result_items' = db.items
        /\ last' = [op |-> "clearUserCache", userId |-> userId]
        /\ UNCHANGED <<now, braveRaw, serperRaw, cache, env, hist, served, pin, pout, inflight>>

NextAgg == Tick \/ AggSearch \/ ClearUserCache

SpecAgg == InitAgg /\ [][NextAgg]_vars

-----------------------------------------------------------------------------
(* One aggregation (fetch, deduplicate, rank) over arbitrary upstream answers *)

SeqsUpTo(S, n) == UNION {[1..k -> S] : k \in 0..n}

GoogleCorpora == SeqsUpTo({G(u, d[1], d[2]) : u \in 1..MaxUrl, d \in {<<0, 3>>, <<2, 1>>}},
                          MaxGoogleLen)

BraveAnswers == SeqsUpTo({B(u, 0, 0, TRUE) : u \in 1..MaxUrl}, MaxBraveLen)

SerperAnswers == SeqsUpTo({B(u, 3, 1, TRUE) : u \in 1..MaxUrl}, MaxSerperLen)

InitMerge ==
  /\ now = 0
  /\ aggregated_results = EmptyMap
  /\ result_items = <<>>
  /\ braveRaw = EmptyMap
  /\ serperRaw = EmptyMap
  /\ cache = EmptyMap
  /\ env = [BRAVE |-> TRUE, SERPER |-> TRUE]
  /\ last = NoLast
  /\ hist = EmptyMap
  /\ ops = 0
  /\ served = {}
  /\ pin \in [request : {[query |-> QueryA, orientation |-> "none", count |-> 0, start |-> 0,
                          tbs |-> <<>>]},
              up : [google : {[ok |-> TRUE, corpus |-> c, total |-> Len(c)] : c \in GoogleCorpora},
                    brave : {[ok |-> TRUE, items |-> a] : a \in BraveAnswers},
                    serper : {[ok |-> TRUE, items |-> a] : a \in SerperAnswers}]]
  /\ pout = [done |-> FALSE]
  /\ inflight = <<>>

\* aggregatedSearchService.ts:39-41: rawResults, deduped, optimized
Merge ==
  /\ ~pout.done
  /\ \E f \in {fetchFromEngines(pin.request, env, braveRaw, serperRaw, pin.up, now)} :
       \E d \in {deduplicateResults(f.results)} :
         pout' = [done |-> TRUE, raw |-> f.results, deduped |-> d,
                  optimized |-> optimizeResults(d)]
  /\ UNCHANGED <<now, aggregated_results, result_items, braveRaw, serperRaw, cache, env,
                 last, hist, ops, served, pin, inflight>>

NextMerge == Merge

SpecMerge == InitMerge /\ [][NextMerge]_vars

-----------------------------------------------------------------------------
(* The pagination windows of the aggregated search and of the three adapters *)

\* a RawResultSet of n filtered results
RawSetOfLen(engine, n) ==
  [allResults |-> [i \in 1..n |-> [id |-> <<engine, i>>, url |-> i, width |-> 0, height |-> 0,
                                  sourceEngine |-> engine]],
   totalResults |-> n, query |-> QueryA, orientation |-> "none", fetchedAt |-> 0]

InitPage ==
  /\ now = 0
  /\ aggregated_results = EmptyMap
  /\ result_items = <<>>
  /\ braveRaw = EmptyMap
  /\ serperRaw = EmptyMap
  /\ cache = EmptyMap
  /\ env = [BRAVE |-> TRUE, SERPER |-> TRUE]
  /\ last = NoLast
  /\ hist = EmptyMap
  /\ ops = 0
  /\ served = {}
  /\ pin \in [start : 1..MaxStart, count : 1..MaxCount, total : 0..MaxTotal]
  /\ pout = [done |-> FALSE]
  /\ inflight = <<>>

\* the store holding one persisted set of n results for request
StoreOfLen(request, n) ==
  storeAggregatedResult([agg |-> EmptyMap, items |-> <<>>],
                        [id |-> generateAggId(request), query |-> request.query,
                         orientation |-> request.orientation, tbs |-> request.tbs,
                         created_at |-> 0, expires_at |-> AGG_TTL_MS, user_id |-> "u1"],
                        RawSetOfLen("brave", n).allResults)

\* the answers of the four places that page a result set, for (start, count)
\* over a set of total results
PageResponses(request, total) ==
  [aggregated |-> AggregatedSearch(request, "u1", [BRAVE |-> TRUE, SERPER |-> TRUE],
                                   StoreOfLen(request, total), EmptyMap, EmptyMap,
                                   [google |-> GoogleDown, brave |-> BulkDown,
                                    serper |-> BulkDown], 0).resp,
   google |-> GoogleSearch(request, [ok |-> TRUE,
                                     corpus |-> [i \in 1..total |-> G(i, 2, 1)],
                                     total |-> total]).resp,
   brave |-> BulkPage("brave", request, RawSetOfLen("brave", total)),
   serper |-> BulkPage("serper", request, RawSetOfLen("serper", total))]

\* the window each of the four places computes for (start, count) over a set
\* of pin.total results, and the answer it is part of
Paginate ==
  /\ ~pout.done
  /\ \E resp \in {PageResponses([query |-> QueryA, orientation |-> "none",
                                   count |-> pin.count, start |-> pin.start, tbs |-> <<>>],
                                  pin.total)} :
       pout' = [done |-> TRUE,
                window |-> [a \in DOMAIN resp |-> resp[a].pagination],
                resp |-> resp]
  /\ UNCHANGED <<now, aggregated_results, result_items, braveRaw, serperRaw, cache, env,
                 last, hist, ops, served, pin, inflight>>

NextPage == Paginate

SpecPage == InitPage /\ [][NextPage]_vars

-----------------------------------------------------------------------------
(* The bulk adapters on their own: BraveSearchEngine.search, SerperSearchEngine.search *)

\* an upstream answer of 100 items of which 85 pass the filter
BulkMany == [ok |-> TRUE, items |-> [i \in 1..BULK_BATCH |-> B(i, 2, 1, i > 15)]]

BulkUps(engine) ==
  {BulkDown, IF engine = "brave" THEN BraveHits ELSE SerperHits, BulkMany}

EngineRequests ==
  { [query |-> QueryA, orientation |-> "none", count |-> 0, start |-> 0, tbs |-> <<>>],
    [query |-> QueryA, orientation |-> "none", count |-> 2, start |-> 3, tbs |-> <<>>],
    [query |-> QueryAUpper, orientation |-> "none", count |-> 10, start |-> 1, tbs |-> <<>>],
    [query |-> QueryA, orientation |-> "landscape", count |-> 2, start |-> 1, tbs |-> <<>>],
    [query |-> QueryA, orientation |-> "none", count |-> 101, start |-> 1, tbs |-> <<>>] }

RawOf(engine) == IF engine = "brave" THEN braveRaw ELSE serperRaw

\* the adapter under study is the one whose API key the environment holds
EngineEnvs == { [BRAVE |-> TRUE, SERPER |-> FALSE], [BRAVE |-> FALSE, SERPER |-> TRUE] }

InitEngine ==
  /\ now = 0
  /\ aggregated_results = EmptyMap
  /\ result_items = <<>>
  /\ braveRaw = EmptyMap
  /\ serperRaw = EmptyMap
  /\ cache = EmptyMap
  /\ env \in EngineEnvs
  /\ last = NoLast
  /\ hist = EmptyMap
  /\ ops = 0
  /\ served = {}
  /\ pin = 0
  /\ pout = 0
  /\ inflight = <<>>

\* the upstream answers that matter to a search: none when it makes no call
BulkUpsFor(engine, request) ==
  IF \/ validateSearchRequest(request, MaxQueryLen(engine), MaxEngineCount(engine)) # "ok"
     \/ RawLookupHit(RawOf(engine),
                     createRawResultsCacheKey(engine, request.query, request.orientation), now)
    THEN {BulkDown} ELSE BulkUps(engine)

\* engine.search(request) of a bulk adapter
EngineSearch ==
  /\ ops < MaxOps
  /\ \E engine \in {e \in BulkEngines : IF e = "brave" THEN env.BRAVE ELSE env.SERPER},
        request \in EngineRequests :
       \E up \in BulkUpsFor(engine, request) :
         \E r \in {BulkSearch(engine, request, RawOf(engine), up, now)} :
           \E h \in {HistAfter(hist, r.calls,
                               IF engine = "brave" THEN r.raw ELSE braveRaw,
                               IF engine = "serper" THEN r.raw ELSE serperRaw, now)} :
             /\ HistBounded(h)
             /\ ops' = ops + 1
             /\ braveRaw' = IF engine = "brave" THEN r.raw ELSE braveRaw
             /\ serperRaw' = IF engine = "serper" THEN r.raw ELSE serperRaw
             /\ hist' = h
             /\ last' = [op |-> "engine", engine |-> engine, request |-> request,
                         rawKey |-> createRawResultsCacheKey(engine, request.query,
                                                             request.orientation),
                         resp |-> r.resp, calls |-> r.calls]
             /\ UNCHANGED <<now, aggregated_results, result_items, cache, env, served, pin, pout, inflight>>

NextEngine == Tick \/ EngineSearch

SpecEngine == InitEngine /\ [][NextEngine]_vars

-----------------------------------------------------------------------------
(* CacheService: the response cache and its keys *)

\* the text of an enumeration value (engine hint, user id)
Text(v) ==
  CASE v = "default" -> <<100, 101, 102, 97, 117, 108, 116>>
    [] v = "google" -> <<103, 111, 111, 103, 108, 101>>
    [] v = "serper" -> <<115, 101, 114, 112, 101, 114>>
    [] v = "brave" -> <<98, 114, 97, 118, 101>>
    [] v = "mock" -> <<109, 111, 99, 107>>
    [] v = "u1" -> <<117, 49>>
    [] v = "u2" -> <<117, 50>>

RECURSIVE DecDigits(_)
DecDigits(n) == IF n < 10 THEN <<48 + n>> ELSE DecDigits(n \div 10) \o <<48 + (n % 10)>>

\* JSON.stringify of an integer
JsonNumber(n) == IF n < 0 THEN <<45>> \o DecDigits(-n) ELSE DecDigits(n)

\* JSON.stringify of a string: quoted, with quote and backslash escaped
JsonString(str) ==
  <<34>> \o Flatten([i \in 1..Len(str) |->
                      IF str[i] \in {34, 92} THEN <<92, str[i]>> ELSE <<str[i]>>]) \o <<34>>

\* part_004:48-56 loop body: hash = ((hash << 5) - hash) + char, cut to 32 bits.
\* A 32-bit word is the pair <<high 16 bits, low 16 bits>>
HashStep(h, char) ==
  LET lo == 31 * h[2] + char
      hi == 31 * h[1] + lo \div 65536
  IN  <<hi % 65536, lo % 65536>>

RECURSIVE HashFrom(_, _, _, _)
HashFrom(str, i, j, h) ==
  IF i > j THEN h ELSE HashFrom(str, i + 1, j, HashStep(h, str[i]))

\* hash & hash: the value is a 32-bit word
IsInt32(h) == h[1] \in 0..65535 /\ h[2] \in 0..65535

\* the loop over the characters of str, sixteen at a time
RECURSIVE HashLoop(_, _, _)
HashLoop(str, i, h) ==
  IF i > Len(str) THEN h
  ELSE LET hash == HashFrom(str, i, Min(i + 15, Len(str)), h)
       IN  IF IsInt32(hash) THEN HashLoop(str, i + 16, hash) ELSE hash

\* Math.abs of the word read as a signed 32-bit integer
AbsInt32(h) ==
  IF h[1] < 32768 THEN h
  ELSE IF h[2] = 0 THEN <<65536 - h[1], 0>>
  ELSE <<65535 - h[1], 65536 - h[2]>>

DigitChar(d) == IF d < 10 THEN 48 + d ELSE 87 + d

RECURSIVE Base36(_)
Base36(n) ==
  IF n = <<0, 0>> THEN <<>>
  ELSE LET x == (n[1] % 36) * 65536 + n[2]
       IN  Base36(<<n[1] \div 36, x \div 36>>) \o <<DigitChar(x % 36)>>

\* Number.prototype.toString(36) of a non-negative integer
ToString36(n) == IF n = <<0, 0>> THEN <<48>> ELSE Base36(n)

\* part_004:48-56
simpleHash(str) == ToString36(AbsInt32(HashLoop(str, 1, <<0, 0>>)))

\* part_004:61-77 with generateCacheKey (31-43): the params in sorted key
\* order, stringified, hashed and prefixed with "search:"
createSearchCacheKey(request, engine, userId) ==
  LET paramsString ==
        <<123, 34, 99, 111, 117, 110, 116, 34, 58>> \o JsonNumber(IF request.count # 0 THEN request.count ELSE 10)
        \o <<44, 34, 101, 110, 103, 105, 110, 101, 34, 58>> \o JsonString(Text(IF engine # "none" THEN engine ELSE "default"))
        \o <<44, 34, 111, 114, 105, 101, 110, 116, 97, 116, 105, 111, 110, 34, 58>> \o JsonString(OrientationText(request.orientation, <<97, 110, 121>>))
        \o <<44, 34, 113, 117, 101, 114, 121, 34, 58>> \o JsonString(Trim(ToLower(request.query)))
        \o <<44, 34, 115, 116, 97, 114, 116, 34, 58>> \o JsonNumber(IF request.start # 0 THEN request.start ELSE 1)
        \o (IF userId # "none" THEN <<44, 34, 117, 115, 101, 114, 73, 100, 34, 58>> \o JsonString(Text(userId)) ELSE <<>>)
        \o <<125>>
  IN  <<115, 101, 97, 114, 99, 104, 58>> \o simpleHash(paramsString)

\* part_004:21
SEARCH_CACHE_TTL == 604800

\* part_004:145: the size above which setCache sweeps expired entries
CACHE_SWEEP_SIZE == 100

\* a lookup that also returns entries past their ttl
GetIgnoringTtl(c, cacheKey, t) ==
  IF cacheKey \notin DOMAIN c THEN [hit |-> FALSE, cache |-> c]
  ELSE [hit |-> TRUE, data |-> c[cacheKey].data, cache |-> c]

\* part_004:102-125: hit is FALSE for null; an expired entry is deleted
getFromCache(c, cacheKey, t) ==
  IF cacheKey \notin DOMAIN c THEN [hit |-> FALSE, cache |-> c]
  ELSE IF t - c[cacheKey].timestamp > c[cacheKey].ttl * 1000
    THEN [hit |-> FALSE, cache |-> [k \in DOMAIN c \ {cacheKey} |-> c[k]]]
  ELSE [hit |-> TRUE, data |-> c[cacheKey].data, cache |-> c]

\* part_004:157-166
cleanupExpiredEntries(c, t) ==
  [k \in {x \in DOMAIN c : ~(t - c[x].timestamp > c[x].ttl * 1000)} |-> c[k]]

\* a store that decides on the sweep by the size before the write
SetSweepBefore(c, cacheKey, data, ttl, t) ==
  LET stored == [k \in DOMAIN c \cup {cacheKey} |->
                   IF k = cacheKey THEN [data |-> data, timestamp |-> t, ttl |-> ttl] ELSE c[k]]
  IN  IF Cardinality(DOMAIN c) > CACHE_SWEEP_SIZE
        THEN cleanupExpiredEntries(stored, t) ELSE stored

\* part_004:130-152
setCache(c, cacheKey, data, ttl, t) ==
  LET stored == [k \in DOMAIN c \cup {cacheKey} |->
                   IF k = cacheKey THEN [data |-> data, timestamp |-> t, ttl |-> ttl] ELSE c[k]]
  IN  IF Cardinality(DOMAIN stored) > CACHE_SWEEP_SIZE
        THEN cleanupExpiredEntries(stored, t) ELSE stored

-----------------------------------------------------------------------------
(* UnifiedSearchService *)

\* part_006:49-111: MockSearchEngine.search (the random fileSize is not kept)
MockSearch(request) ==
  LET v == validateSearchRequest(request, 200, 10)
      resultsPerPage == IF request.count # 0 THEN request.count ELSE 10
      currentStartIndex == IF request.start # 0 THEN request.start ELSE 1
      isLandscape == request.orientation # "portrait"
  IN  IF v # "ok" THEN [resp |-> Fail(v), calls |-> <<>>]
      ELSE [resp |-> [success |-> TRUE,
                      results |-> [i \in 1..resultsPerPage |->
                                     [id |-> <<"mock", currentStartIndex + i - 1>>,
                                      url |-> <<"picsum", isLandscape, currentStartIndex + i - 1>>,
                                      width |-> IF isLandscape THEN 1920 ELSE 1080,
                                      height |-> IF isLandscape THEN 1080 ELSE 1920,
                                      sourceEngine |-> "none"]],
                      pagination |-> GooglePagination(request, 1000),
                      searchEngine |-> "Mock Search Engine"],
            calls |-> <<>>]

\* config/searchEngines.ts:19-24
USE_OPTIMAL_SELECTION == FALSE

FORCE_ENGINE == "google"

FALLBACK_TO_OPTIMAL == TRUE

PRIORITY_ORDER == <<"zenserp", "serper", "google", "mock">>

\* config/searchEngines.ts:13-18 has no BRAVE entry: AVAILABLE_ENGINES.BRAVE is undefined
AVAILABLE_ENGINES_BRAVE == "undefined"

\* a constructor that registers the engines with credentials and no mock engine
CredentialedEngines(keys) ==
  (IF keys.BRAVE THEN {AVAILABLE_ENGINES_BRAVE} ELSE {})
    \cup (IF keys.ZENSERP THEN {"zenserp"} ELSE {})
    \cup (IF keys.SERPER THEN {"serper"} ELSE {})
    \cup (IF keys.GOOGLE THEN {"google"} ELSE {})

\* unifiedSearchService.ts:20-63: the keys of searchEngines
RegisteredEngines(keys) ==
  (IF keys.BRAVE THEN {AVAILABLE_ENGINES_BRAVE} ELSE {})
    \cup (IF keys.ZENSERP THEN {"zenserp"} ELSE {})
    \cup (IF keys.SERPER THEN {"serper"} ELSE {})
    \cup (IF keys.GOOGLE THEN {"google"} ELSE {})
    \cup {"mock"}

\* a selection that keeps the last registered key of the order
LastRegistered(priorityOrder, registered) ==
  LET avail == {i \in 1..Len(priorityOrder) : priorityOrder[i] \in registered}
  IN  IF avail = {} THEN "mock"
      ELSE priorityOrder[CHOOSE i \in avail : \A j \in avail : i >= j]

\* unifiedSearchService.ts:105-124: the loop over the priority order, for the
\* order priorityOrder and the keys registered of searchEngines
OptimalEngine(priorityOrder, registered) ==
  LET avail == {i \in 1..Len(priorityOrder) : priorityOrder[i] \in registered}
  IN  IF avail = {} THEN "mock"
      ELSE priorityOrder[CHOOSE i \in avail : \A j \in avail : i <= j]

\* unifiedSearchService.ts:67-100 for the ENGINE_SELECTION record selection
ConfiguredEngine(selection, registered) ==
  IF selection.USE_OPTIMAL_SELECTION THEN OptimalEngine(selection.PRIORITY_ORDER, registered)
  ELSE IF selection.FORCE_ENGINE \in registered THEN selection.FORCE_ENGINE
  ELSE IF selection.FALLBACK_TO_OPTIMAL THEN OptimalEngine(selection.PRIORITY_ORDER, registered)
  ELSE "mock"

\* config/searchEngines.ts:19-24
ENGINE_SELECTION ==
  [USE_OPTIMAL_SELECTION |-> USE_OPTIMAL_SELECTION, FORCE_ENGINE |-> FORCE_ENGINE,
   FALLBACK_TO_OPTIMAL |-> FALLBACK_TO_OPTIMAL, PRIORITY_ORDER |-> PRIORITY_ORDER]

\* unifiedSearchService.ts:102-123
setOptimalDefaultEngine(keys) == OptimalEngine(PRIORITY_ORDER, RegisteredEngines(keys))

\* unifiedSearchService.ts:68-97
setDefaultEngineFromConfig(keys) == ConfiguredEngine(ENGINE_SELECTION, RegisteredEngines(keys))

\* a search that ignores the engine asked for
DefaultOnly(engineKey, defaultEngine) == defaultEngine

\* unifiedSearchService.ts:166: engineKey || this.defaultEngine; "none" is the
\* parameter left out
SearchKey(engineKey, defaultEngine) ==
  IF engineKey # "none" THEN engineKey ELSE defaultEngine

\* unifiedSearchService.ts:166-198: search(request, engineKey) of a service
\* built from the environment keys; the environments of the model configure
\* no Zenserp key
UnifiedSearch(request, engineKey, keys, bRaw, sRaw, up, t) ==
  LET key == SearchKey(engineKey, setDefaultEngineFromConfig(keys))
      r == CASE key = "google" ->
                  LET g == GoogleSearch(request, up.google)
                  IN  [resp |-> g.resp, braveRaw |-> bRaw, serperRaw |-> sRaw, calls |-> g.calls]
             [] key = "serper" ->
                  LET b == BulkSearch("serper", request, sRaw, up.serper, t)
                  IN  [resp |-> b.resp, braveRaw |-> bRaw, serperRaw |-> b.raw, calls |-> b.calls]
             [] key = AVAILABLE_ENGINES_BRAVE ->
                  LET b == BulkSearch("brave", request, bRaw, up.brave, t)
                  IN  [resp |-> b.resp, braveRaw |-> b.raw, serperRaw |-> sRaw, calls |-> b.calls]
             [] OTHER ->
                  LET m == MockSearch(request)
                  IN  [resp |-> m.resp, braveRaw |-> bRaw, serperRaw |-> sRaw, calls |-> m.calls]
  IN  IF key \notin RegisteredEngines(keys)
        THEN [resp |-> Fail("Search engine not available"), braveRaw |-> bRaw,
              serperRaw |-> sRaw, calls |-> <<>>, key |-> key]
        ELSE [resp |-> IF r.resp.success
                         THEN [r.resp EXCEPT !.searchEngine = <<r.resp.searchEngine, key>>]
                         ELSE r.resp,
              braveRaw |-> r.braveRaw, serperRaw |-> r.serperRaw, calls |-> r.calls,
              key |-> key]

-----------------------------------------------------------------------------
(* routes/search.ts: GET /images *)

\* search.ts:79-86: the search that withCache runs on a miss. search.ts:8 sets
\* USE_AGGREGATED_SEARCH to true; the branch taken for false is kept, the
\* flag being a field of the environment
AsFresh(r, db, key) ==
  [resp |-> r.resp, db |-> db, braveRaw |-> r.braveRaw, serperRaw |-> r.serperRaw,
   calls |-> r.calls, key |-> key]

AggregatedFresh(a) == AsFresh(a, a.db, "aggregated")

UnifiedFresh(u, db) == AsFresh(u, db, u.key)

RouteSearch(searchRequest, input, db, bRaw, sRaw, keys, up, t) ==
  IF keys.USE_AGGREGATED_SEARCH
    THEN AggregatedFresh(AggregatedSearch(searchRequest, input.userId, keys, db,
                                          bRaw, sRaw, up, t))
    ELSE UnifiedFresh(UnifiedSearch(searchRequest, input.engine, keys, bRaw, sRaw, up, t), db)

\* a handler that runs the search whatever the lookup gave
RespondAlwaysFresh(input, c, db, bRaw, sRaw, t, cacheKey, cached, fresh) ==
  IF input.query = <<>>
    THEN [status |-> 400, result |-> Fail("Query parameter is required"),
          keyed |-> FALSE, cached |-> FALSE, cacheKey |-> <<>>, cache |-> c, db |-> db,
          braveRaw |-> bRaw, serperRaw |-> sRaw, calls |-> <<>>, key |-> "none"]
  ELSE [status |-> IF fresh.resp.success THEN 200 ELSE 400, result |-> fresh.resp,
        keyed |-> TRUE, cached |-> FALSE, cacheKey |-> cacheKey,
        cache |-> setCache(cached.cache, cacheKey, fresh.resp, SEARCH_CACHE_TTL, t),
        db |-> fresh.db, braveRaw |-> fresh.braveRaw, serperRaw |-> fresh.serperRaw,
        calls |-> fresh.calls, key |-> fresh.key]

\* part_004:213-233 withCache and search.ts:54-120: the answer for the cache
\* lookup cached and the search result fresh, which is computed on a miss only
RouteRespond(input, c, db, bRaw, sRaw, t, cacheKey, cached, fresh) ==
  IF input.query = <<>>
    THEN [status |-> 400, result |-> Fail("Query parameter is required"),
          keyed |-> FALSE, cached |-> FALSE, cacheKey |-> <<>>, cache |-> c, db |-> db,
          braveRaw |-> bRaw, serperRaw |-> sRaw, calls |-> <<>>, key |-> "none"]
  ELSE IF cached.hit
    THEN [status |-> IF cached.data.success THEN 200 ELSE 400, result |-> cached.data,
          keyed |-> TRUE, cached |-> TRUE, cacheKey |-> cacheKey, cache |-> cached.cache,
          db |-> db, braveRaw |-> bRaw, serperRaw |-> sRaw, calls |-> <<>>,
          key |-> "none"]
  ELSE [status |-> IF fresh.resp.success THEN 200 ELSE 400, result |-> fresh.resp,
        keyed |-> TRUE, cached |-> FALSE, cacheKey |-> cacheKey,
        cache |-> setCache(cached.cache, cacheKey, fresh.resp, SEARCH_CACHE_TTL, t),
        db |-> fresh.db, braveRaw |-> fresh.braveRaw, serperRaw |-> fresh.serperRaw,
        calls |-> fresh.calls, key |-> fresh.key]

\* search.ts:27-133 for the query parameters input and the signed-in user
\* input.userId, on the response cache c, the store db and the raw caches
ImagesRoute(input, c, db, bRaw, sRaw, keys, up, t) ==
  LET searchRequest == [query |-> input.query, orientation |-> input.orientation,
                        count |-> input.count, start |-> input.start, tbs |-> input.tbs]
      cacheKey == createSearchCacheKey(searchRequest, input.engine, input.userId)
  IN  RouteRespond(input, c, db, bRaw, sRaw, t, cacheKey, getFromCache(c, cacheKey, t),
                   RouteSearch(searchRequest, input, db, bRaw, sRaw, keys, up, t))

\* a Google index of 12 hits
GoogleBig == [ok |-> TRUE, corpus |-> [i \in 1..12 |-> G(i, 2, 1)], total |-> 12]

RouteUps ==
  { [google |-> GoogleBig, brave |-> BraveHits, serper |-> SerperHits],
    [google |-> GoogleDown, brave |-> BulkDown, serper |-> BulkDown] }

\* search.ts:8 USE_AGGREGATED_SEARCH and the API keys of the Bindings
RouteEnvs ==
  { [BRAVE |-> TRUE, SERPER |-> TRUE, GOOGLE |-> TRUE, ZENSERP |-> FALSE,
     USE_AGGREGATED_SEARCH |-> a] : a \in BOOLEAN }
    \cup { [BRAVE |-> FALSE, SERPER |-> TRUE, GOOGLE |-> FALSE, ZENSERP |-> FALSE,
            USE_AGGREGATED_SEARCH |-> FALSE] }

\* (count, start) of the pages asked of Google
RoutePaging == { <<10, 1>>, <<10, 11>>, <<10, 999>>, <<10, 1095060>> }

RouteInput(query, count, start, engine, userId) ==
  [query |-> query, orientation |-> "none", count |-> count, start |-> start,
   engine |-> engine, tbs |-> <<>>, userId |-> userId]

RouteInputs ==
  { RouteInput(QueryA, p[1], p[2], "google", "u1") : p \in RoutePaging }
    \cup { RouteInput(QueryA, 10, 1, "serper", "u1"),
           RouteInput(QueryA, 10, 11, "serper", "u1"),
           RouteInput(QueryA, 0, 0, "none", "u1"),
           RouteInput(QueryAUpper, 0, 0, "google", "u1"),
           RouteInput(QueryA, 10, 1, "google", "u2"),
           RouteInput(QueryA, 10, 1, "brave", "u1"),
           RouteInput(<<>>, 0, 0, "none", "u1") }

\* the text of a number in a query string; a parameter that is left out is empty
ParamText(n) == IF n = 0 THEN <<>> ELSE JsonNumber(n)

RECURSIVE DecValue(_, _)
DecValue(s, i) == IF i = 0 THEN 0 ELSE DecValue(s, i - 1) * 10 + (s[i] - 48)

\* parseInt: leading spaces, an optional sign, then the longest run of decimal
\* digits.  Without a digit the value is NaN, which is 0 here: like undefined
\* and 0 it is falsy and not greater than 0, which is all the code asks of it
parseInt(text) ==
  LET s == TrimLeft(text)
      signed == s # <<>> /\ Head(s) \in {43, 45}
      body == IF signed THEN Tail(s) ELSE s
      n == CHOOSE i \in 0..Len(body) :
             /\ \A j \in 1..i : body[j] \in 48..57
             /\ i < Len(body) => body[i + 1] \notin 48..57
  IN  IF signed /\ Head(s) = 45 THEN 0 - DecValue(body, n) ELSE DecValue(body, n)

\* search.ts:30-35: the parameters read from the query string params
ParseQuery(params) ==
  [query |-> params.q, orientation |-> params.orientation,
   count |-> IF params.count # <<>> THEN parseInt(params.count) ELSE 0,
   start |-> IF params.start # <<>> THEN parseInt(params.start) ELSE 0,
   engine |-> params.engine, tbs |-> params.tbs, userId |-> params.userId]

\* the query string of a request with the parameters input
RouteQuery(input) ==
  [q |-> input.query, orientation |-> input.orientation, count |-> ParamText(input.count),
   start |-> ParamText(input.start), engine |-> input.engine, tbs |-> input.tbs,
   userId |-> input.userId]

RouteQueries == { RouteQuery(input) : input \in RouteInputs }

Init ==
  /\ now = 0
  /\ aggregated_results = EmptyMap
  /\ result_items = <<>>
  /\ braveRaw = EmptyMap
  /\ serperRaw = EmptyMap
  /\ cache = EmptyMap
  /\ env \in RouteEnvs
  /\ last = NoLast
  /\ hist = EmptyMap
  /\ ops = 0
  /\ served = {}
  /\ pin = 0
  /\ pout = 0
  /\ inflight = <<>>

\* the upstream answers that matter to a request: none when it is answered
\* without a search
RouteUpsFor(input) ==
  IF \/ input.query = <<>>
     \/ getFromCache(cache,
                     createSearchCacheKey(input, input.engine, input.userId), now).hit
    THEN {CHOOSE up \in RouteUps : TRUE} ELSE RouteUps

\* GET /images with the query string params
ImagesStep(params) ==
  \E input \in {ParseQuery(params)} :
    \E up \in RouteUpsFor(input) :
      \E r \in {ImagesRoute(input, cache, [agg |-> aggregated_results, items |-> result_items],
                            braveRaw, serperRaw, env, up, now)} :
        \E h \in {HistAfter(hist, r.calls, r.braveRaw, r.serperRaw, now)} :
          /\ HistBounded(h)
          /\ ops' = ops + 1
          /\ cache' = r.cache
          /\ aggregated_results' = r.db.agg
          /\ result_items' = r.db.items
          /\ braveRaw' = r.braveRaw
          /\ serperRaw' = r.serperRaw
          /\ hist' = h
          /\ served' = IF r.keyed
                         THEN served \cup {[input |-> input, cacheKey |-> r.cacheKey]}
                         ELSE served
          /\ last' = [op |-> "images", params |-> params, input |-> input,
                      status |-> r.status, result |-> r.result, keyed |-> r.keyed,
                      cached |-> r.cached, cacheKey |-> r.cacheKey, calls |-> r.calls,
                      key |-> r.key]
          /\ UNCHANGED <<now, env, pin, pout, inflight>>

\* GET /images
Images ==
  /\ ops < MaxOps
  /\ \E params \in RouteQueries : ImagesStep(params)

Next == Tick \/ Images

Spec == Init /\ [][Next]_vars

-----------------------------------------------------------------------------
(* GET /images on query strings at and beyond the limits of validation *)

EdgeQuery(q, orientation, count, start, engine) ==
  [q |-> q, orientation |-> orientation, count |-> count, start |-> start,
   engine |-> engine, tbs |-> <<>>, userId |-> "u1"]

\* q=a alone, then with count=0 and start=0, count=101, start=-1, an unknown
\* orientation and an empty query
EdgeQueries ==
  { EdgeQuery(QueryA, "none", <<>>, <<>>, e) : e \in {"none", "serper"} }
    \cup { EdgeQuery(QueryA, "none", <<48>>, <<48>>, "none"),
           EdgeQuery(QueryA, "none", <<48>>, <<>>, "serper"),
           EdgeQuery(QueryA, "none", <<>>, <<48>>, "google"),
           EdgeQuery(QueryA, "none", <<49, 48, 49>>, <<>>, "none"),
           EdgeQuery(QueryA, "none", <<>>, <<45, 49>>, "none"),
           EdgeQuery(QueryA, "invalid", <<>>, <<>>, "none"),
           EdgeQuery(<<>>, "none", <<>>, <<>>, "none") }

\* GET /images
ImagesEdge ==
  /\ ops < MaxOps
  /\ \E params \in EdgeQueries : ImagesStep(params)

NextEdge == Tick \/ ImagesEdge

SpecEdge == Init /\ [][NextEdge]_vars

-----------------------------------------------------------------------------
(* CacheService on its own: getFromCache, setCache, withCache *)

\* part_004:23
HEALTH_CACHE_TTL == 300

\* a store that leaves an entry behind even when it fails
PoisonedSet(c, cacheKey, data, ttl, t, throws) == setCache(c, cacheKey, data, ttl, t)

\* part_004:130-152 with its try/catch: when this.cache.set throws, the error
\* is logged and swallowed and nothing has been written
setCacheCaught(c, cacheKey, data, ttl, t, throws) ==
  IF throws THEN c ELSE setCache(c, cacheKey, data, ttl, t)

\* part_004:213-233: withCache for an operation that would return freshData.
\* The data of the callers are objects, which are truthy
withCache(c, cacheKey, freshData, ttl, t, throws) ==
  LET cached == getFromCache(c, cacheKey, t)
  IN  IF cached.hit
        THEN [data |-> cached.data, fromCache |-> TRUE, ran |-> FALSE, cache |-> cached.cache]
        ELSE [data |-> freshData, fromCache |-> FALSE, ran |-> TRUE,
              cache |-> setCacheCaught(cached.cache, cacheKey, freshData, ttl, t, throws)]

CacheKeys == { <<107, 49>>, <<107, 50>> }

CacheData == { "d1", "d2" }

\* part_004:188-208 getCacheConfig: the ttl of 'search' and of 'health'
CacheTtls == { SEARCH_CACHE_TTL, HEALTH_CACHE_TTL }

InitCache ==
  /\ now = 0
  /\ aggregated_results = EmptyMap
  /\ result_items = <<>>
  /\ braveRaw = EmptyMap
  /\ serperRaw = EmptyMap
  /\ cache = EmptyMap
  /\ env = [BRAVE |-> TRUE, SERPER |-> TRUE]
  /\ last = NoLast
  /\ hist = EmptyMap
  /\ ops = 0
  /\ served = {}
  /\ pin = 0
  /\ pout = 0
  /\ inflight = <<>>

\* CacheService.getFromCache(cacheKey)
CacheGet ==
  /\ ops < MaxOps
  /\ \E cacheKey \in CacheKeys :
       \E r \in {getFromCache(cache, cacheKey, now)} :
         /\ cache' = r.cache
         /\ last' = [op |-> "get", key |-> cacheKey, hit |-> r.hit,
                     data |-> IF r.hit THEN r.data ELSE "null",
                     before |-> cache, at |-> now]
  /\ ops' = ops + 1
  /\ UNCHANGED <<now, aggregated_results, result_items, braveRaw, serperRaw, env, hist,
                 served, pin, pout, inflight>>

\* CacheService.setCache(cacheKey, data, {ttl})
CacheSet ==
  /\ ops < MaxOps
  /\ \E cacheKey \in CacheKeys, data \in CacheData, ttl \in CacheTtls, throws \in BOOLEAN :
       /\ cache' = setCacheCaught(cache, cacheKey, data, ttl, now, throws)
       /\ last' = [op |-> "set", key |-> cacheKey, data |-> data, ttl |-> ttl,
                   throws |-> throws, before |-> cache, at |-> now]
  /\ ops' = ops + 1
  /\ UNCHANGED <<now, aggregated_results, result_items, braveRaw, serperRaw, env, hist,
                 served, pin, pout, inflight>>

\* CacheService.withCache(cacheKey, operation, cacheType)
WithCache ==
  /\ ops < MaxOps
  /\ \E cacheKey \in CacheKeys, data \in CacheData, ttl \in CacheTtls, throws \in BOOLEAN :
       \E r \in {withCache(cache, cacheKey, data, ttl, now, throws)} :
         /\ cache' = r.cache
         /\ last' = [op |-> "withCache", key |-> cacheKey, fresh |-> data, ttl |-> ttl,
                     throws |-> throws, data |-> r.data, fromCache |-> r.fromCache,
                     ran |-> r.ran, before |-> cache, at |-> now,
                     afterFailure |-> /\ last.op = "withCache"
                                      /\ last.key = cacheKey
                                      /\ last.throws /\ ~last.fromCache]
  /\ ops' = ops + 1
  /\ UNCHANGED <<now, aggregated_results, result_items, braveRaw, serperRaw, env, hist,
                 served, pin, pout, inflight>>

NextCache == Tick \/ CacheGet \/ CacheSet \/ WithCache

SpecCache == InitCache /\ [][NextCache]_vars

-----------------------------------------------------------------------------
(* The aggregated search service on a durable store that may fail *)

\* what the store does during one search: it works, or the statement of the
\* lookup (getAggregatedResult), of the batch (storeAggregatedResult) or of the
\* page read (getPaginatedResults) rejects
StoreFaults == { "none", "lookup", "store", "read" }

\* aggregatedSearchService.ts:92-94: the catch of search() turns the error
\* into a failure response.  a is the search on a working store: what it
\* did before the statement rejected stays done (a rejected batch writes nothing)
CaughtAt(a, db, bRaw, sRaw, fault) ==
  IF fault = "lookup"
    THEN [resp |-> Fail("D1_ERROR"), db |-> db, braveRaw |-> bRaw, serperRaw |-> sRaw,
          calls |-> <<>>, miss |-> FALSE, raw |-> <<>>, optimized |-> <<>>]
  ELSE IF fault = "store" /\ a.miss
    THEN [resp |-> Fail("D1_ERROR"), db |-> db, braveRaw |-> a.braveRaw,
          serperRaw |-> a.serperRaw, calls |-> a.calls, miss |-> TRUE,
          raw |-> a.raw, optimized |-> a.optimized]
  ELSE IF fault = "read"
    THEN [resp |-> Fail("D1_ERROR"), db |-> a.db, braveRaw |-> a.braveRaw,
          serperRaw |-> a.serperRaw, calls |-> a.calls, miss |-> a.miss,
          raw |-> a.raw, optimized |-> a.optimized]
  ELSE [resp |-> a.resp, db |-> a.db, braveRaw |-> a.braveRaw, serperRaw |-> a.serperRaw,
        calls |-> a.calls, miss |-> a.miss, raw |-> a.raw, optimized |-> a.optimized]

\* aggregatedSearchService.ts:34-95 with the store fault of this search
AggregatedSearchOn(request, userId, keys, db, bRaw, sRaw, up, t, fault) ==
  CaughtAt(AggregatedSearch(request, userId, keys, db, bRaw, sRaw, up, t),
           db, bRaw, sRaw, fault)

AllUp == [google |-> GoogleHits, brave |-> BraveHits, serper |-> SerperHits]

\* the providers answer, or one of them fails, or all of them fail
FaultUps ==
  { AllUp,
    [google |-> GoogleOther, brave |-> BraveHits, serper |-> BulkDown],
    [google |-> GoogleHits, brave |-> BulkDown, serper |-> SerperHits],
    [google |-> GoogleDown, brave |-> BraveHits, serper |-> SerperHits],
    [google |-> GoogleDown, brave |-> BulkDown, serper |-> BulkDown] }

\* what fails during one search: providers, or the store while the providers answer
FaultCases ==
  { [up |-> up, fault |-> "none"] : up \in FaultUps }
    \cup { [up |-> AllUp, fault |-> f] : f \in StoreFaults }

FaultRequests ==
  { [query |-> q, orientation |-> "none", count |-> 0, start |-> 0, tbs |-> <<>>] :
      q \in {QueryA, QueryB} }

\* AggregatedSearchService.search(request, userId) while providers or the store may fail
AggSearchOnStore ==
  /\ ops < MaxOps
  /\ \E request \in FaultRequests, case \in FaultCases :
       \E r \in {AggregatedSearchOn(request, "u1", env,
                                      [agg |-> aggregated_results, items |-> result_items],
                                      braveRaw, serperRaw, case.up, now, case.fault)} :
         \E h \in {HistAfter(hist, r.calls, r.braveRaw, r.serperRaw, now)} :
           /\ HistBounded(h)
           /\ ops' = ops + 1
           /\ aggregated_results' = r.db.agg
           /\ result_items' = r.db.items
           /\ braveRaw' = r.braveRaw
           /\ serperRaw' = r.serperRaw
           /\ hist' = h
           /\ last' = [op |-> "aggregated", request |-> request, userId |-> "u1",
                       aggId |-> generateAggId(request), fault |-> case.fault,
                       up |-> case.up, resp |-> r.resp, calls |-> r.calls, miss |-> r.miss,
                       raw |-> r.raw, optimized |-> r.optimized]
           /\ UNCHANGED <<now, cache, env, served, pin, pout, inflight>>

NextFault == Tick \/ AggSearchOnStore

SpecFault == InitAgg /\ [][NextFault]_vars

-----------------------------------------------------------------------------
(* GET /images asked again: the same query string from the same user, from
   another user, and with another page *)

RepeatQueries ==
  { RouteQuery(input) :
      input \in { RouteInput(QueryA, 0, 0, "none", "u1"),
                  RouteInput(QueryA, 2, 1, "google", "u1"),
                  RouteInput(QueryA, 2, 1, "google", "u2"),
                  RouteInput(QueryA, 2, 3, "serper", "u1") } }

\* GET /images
ImagesRepeat ==
  /\ ops < MaxOps
  /\ \E params \in RepeatQueries : ImagesStep(params)

NextRepeat == Tick \/ ImagesRepeat

SpecRepeat == Init /\ [][NextRepeat]_vars

-----------------------------------------------------------------------------
(* Requests in flight together: withCache around engine.search, one step per
   await.  A request is suspended at inflight[p].pc; the steps of different
   requests interleave freely, within one instant of the clock *)

RaceEngines == {"brave", "google"}

RaceRequests ==
  { [query |-> QueryA, orientation |-> "none", count |-> 0, start |-> 0, tbs |-> <<>>],
    [query |-> QueryA, orientation |-> "none", count |-> 2, start |-> 2, tbs |-> <<>>] }

\* what a provider may answer when it answers
RaceAnswers(engine) ==
  IF engine = "google" THEN {GoogleDown, GoogleHits} ELSE {BulkDown, BraveHits}

NoResp == [success |-> FALSE, error |-> "pending"]

InitRace ==
  /\ now = 0
  /\ aggregated_results = EmptyMap
  /\ result_items = <<>>
  /\ braveRaw = EmptyMap
  /\ serperRaw = EmptyMap
  /\ cache = EmptyMap
  /\ env = [BRAVE |-> TRUE, SERPER |-> FALSE]
  /\ last = NoLast
  /\ hist = EmptyMap
  /\ ops = 0
  /\ served = {}
  /\ pin = 0
  /\ pout = 0
  /\ inflight = <<>>

\* search.ts:71-77: the handler computes the cache key and enters withCache
Arrive ==
  /\ ops < MaxOps
  /\ \E engine \in RaceEngines, request \in RaceRequests :
       /\ inflight' = Append(inflight,
                             [pc |-> "lookup", engine |-> engine, request |-> request,
                              cacheKey |-> createSearchCacheKey(request, engine, "u1"),
                              cached |-> FALSE, fetched |-> FALSE, up |-> BulkDown,
                              resp |-> NoResp])
       /\ ops' = ops + 1
       /\ last' = [op |-> "arrive", p |-> ops + 1]
  /\ UNCHANGED <<now, aggregated_results, result_items, braveRaw, serperRaw, cache, env,
                 hist, served, pin, pout>>

\* part_004:214-220: await this.getFromCache(key); a hit is returned at once
LookupStep(p) ==
  /\ inflight[p].pc = "lookup"
  /\ \E g \in {getFromCache(cache, inflight[p].cacheKey, now)} :
       /\ cache' = g.cache
       /\ inflight' = [inflight EXCEPT ![p] =
                         IF g.hit THEN [@ EXCEPT !.pc = "done", !.cached = TRUE,
                                                 !.resp = g.data]
                                  ELSE [@ EXCEPT !.pc = "search"]]
  /\ last' = [op |-> "lookup", p |-> p]
  /\ UNCHANGED <<now, aggregated_results, result_items, braveRaw, serperRaw, env,
                 hist, ops, served, pin, pout>>

\* the request after engine.search has run up to its fetch:
\* braveSearchEngine.ts:207-224 (validation, raw-cache lookup),
\* part_007:170-196 (validation)
searchBegin(r, raw, t) ==
  LET v == validateSearchRequest(r.request, MaxQueryLen(r.engine), MaxEngineCount(r.engine))
      rawCacheKey == createRawResultsCacheKey(r.engine, r.request.query, r.request.orientation)
  IN  IF v # "ok" THEN [r EXCEPT !.pc = "store", !.resp = Fail(v)]
      ELSE IF r.engine # "google" /\ RawLookupHit(raw, rawCacheKey, t)
        THEN [r EXCEPT !.pc = "store",
                       !.resp = BulkPage(r.engine, r.request, raw[rawCacheKey])]
      ELSE [r EXCEPT !.pc = "fetching", !.fetched = TRUE]

\* part_004:223: await operation(), up to the await fetch(...) of the engine
BeginStep(p) ==
  /\ inflight[p].pc = "search"
  /\ inflight' = [inflight EXCEPT ![p] = searchBegin(@, braveRaw, now)]
  /\ braveRaw' = IF inflight[p].engine = "google" THEN braveRaw
                 ELSE RawAfterLookup(braveRaw,
                                     createRawResultsCacheKey(inflight[p].engine,
                                                              inflight[p].request.query,
                                                              inflight[p].request.orientation),
                                     now)
  /\ last' = [op |-> "begin", p |-> p]
  /\ UNCHANGED <<now, aggregated_results, result_items, serperRaw, cache, env,
                 hist, ops, served, pin, pout>>

\* the provider answers the pending fetch: braveSearchEngine.ts:141,
\* part_007:196.  Nothing makes it answer
RespondStep(p) ==
  /\ inflight[p].pc = "fetching"
  /\ \E up \in RaceAnswers(inflight[p].engine) :
       inflight' = [inflight EXCEPT ![p] = [@ EXCEPT !.pc = "settled", !.up = up]]
  /\ last' = [op |-> "respond", p |-> p]
  /\ UNCHANGED <<now, aggregated_results, result_items, braveRaw, serperRaw, cache, env,
                 hist, ops, served, pin, pout>>

\* a second fetch of a set that another request stored meanwhile is refused
ExclusiveFetch(r, raw, t) ==
  LET rawCacheKey == createRawResultsCacheKey(r.engine, r.request.query, r.request.orientation)
  IN  IF r.engine = "google"
        THEN [resp |-> GoogleSearch(r.request, r.up).resp, raw |-> raw]
      ELSE IF ~r.up.ok \/ rawCacheKey \in DOMAIN raw
        THEN [resp |-> Fail("search failed"), raw |-> raw]
      ELSE LET fetched == BulkConvert(r.engine, r.request, r.up.items, t)
           IN  [resp |-> BulkPage(r.engine, r.request, fetched),
                raw |-> setCachedRawResults(raw, rawCacheKey, fetched, t)]

\* engine.search from the settled fetch to its return:
\* braveSearchEngine.ts:151-203 and 225-306, part_007:205-270
searchResume(r, raw, t) ==
  LET rawCacheKey == createRawResultsCacheKey(r.engine, r.request.query, r.request.orientation)
  IN  IF r.engine = "google"
        THEN [resp |-> GoogleSearch(r.request, r.up).resp, raw |-> raw]
      ELSE IF ~r.up.ok
        THEN [resp |-> Fail("search failed"), raw |-> raw]
      ELSE LET fetched == BulkConvert(r.engine, r.request, r.up.items, t)
           IN  [resp |-> BulkPage(r.engine, r.request, fetched),
                raw |-> setCachedRawResults(raw, rawCacheKey, fetched, t)]

\* the continuation of the settled fetch
ResumeStep(p) ==
  /\ inflight[p].pc = "settled"
  /\ \E s \in {searchResume(inflight[p], braveRaw, now)} :
       /\ braveRaw' = s.raw
       /\ inflight' = [inflight EXCEPT ![p] = [@ EXCEPT !.pc = "store", !.resp = s.resp]]
  /\ last' = [op |-> "resume", p |-> p]
  /\ UNCHANGED <<now, aggregated_results, result_items, serperRaw, cache, env,
                 hist, ops, served, pin, pout>>

\* part_004:226-232: await this.setCache(key, freshData, ttl); return
StoreStep(p) ==
  /\ inflight[p].pc = "store"
  /\ cache' = setCache(cache, inflight[p].cacheKey, inflight[p].resp, SEARCH_CACHE_TTL, now)
  /\ inflight' = [inflight EXCEPT ![p] = [@ EXCEPT !.pc = "done"]]
  /\ last' = [op |-> "store", p |-> p]
  /\ UNCHANGED <<now, aggregated_results, result_items, braveRaw, serperRaw, env,
                 hist, ops, served, pin, pout>>

RaceLookup == \E p \in DOMAIN inflight : LookupStep(p)

RaceBegin == \E p \in DOMAIN inflight : BeginStep(p)

Respond == \E p \in DOMAIN inflight : RespondStep(p)

RaceResume == \E p \in DOMAIN inflight : ResumeStep(p)

RaceStore == \E p \in DOMAIN inflight : StoreStep(p)

NextRace == Arrive \/ RaceLookup \/ RaceBegin \/ Respond \/ RaceResume \/ RaceStore

SpecRace == InitRace /\ [][NextRace]_vars

\* the event loop runs every continuation that is ready; the provider is
\* under no obligation
SpecRaceFair ==
  /\ InitRace
  /\ [][NextRace]_vars
  /\ \A p \in 1..MaxOps :
       /\ WF_vars(p \in DOMAIN inflight /\ LookupStep(p))
       /\ WF_vars(p \in DOMAIN inflight /\ BeginStep(p))
       /\ WF_vars(p \in DOMAIN inflight /\ ResumeStep(p))
       /\ WF_vars(p \in DOMAIN inflight /\ StoreStep(p))

-----------------------------------------------------------------------------
(* UnifiedSearchService on its own: construction, setDefaultEngine and the
   dispatch of search, for the shipped ENGINE_SELECTION and the variants of it
   that README.md:540-561 describes *)

SelectionOrders ==
  { PRIORITY_ORDER, <<"google", "serper", "mock">>, <<"mock", "google">>, <<"serper", "google">> }

Selections ==
  [USE_OPTIMAL_SELECTION : BOOLEAN, FORCE_ENGINE : {"google", "zenserp", "mock"},
   FALLBACK_TO_OPTIMAL : BOOLEAN, PRIORITY_ORDER : SelectionOrders]

SelectKeys == [BRAVE : BOOLEAN, ZENSERP : BOOLEAN, SERPER : BOOLEAN, GOOGLE : BOOLEAN]

\* the engine asked for in a call of search: none, a key of the configuration,
\* or a name that is no key of it
Hints == {"none", "google", "serper", "zenserp", "mock", "brave"}

\* unifiedSearchService.ts:16-63: the service the constructor returns
NewService(selection, keys) ==
  [built |-> TRUE, searchEngines |-> RegisteredEngines(keys),
   defaultEngine |-> ConfiguredEngine(selection, RegisteredEngines(keys))]

InitSelect ==
  /\ now = 0
  /\ aggregated_results = EmptyMap
  /\ result_items = <<>>
  /\ braveRaw = EmptyMap
  /\ serperRaw = EmptyMap
  /\ cache = EmptyMap
  /\ env \in SelectKeys
  /\ last = NoLast
  /\ hist = EmptyMap
  /\ ops = 0
  /\ served = {}
  /\ pin \in Selections
  /\ pout = [built |-> FALSE]
  /\ inflight = <<>>

\* new UnifiedSearchService(env)
Construct ==
  /\ ops < MaxOps
  /\ pout' = NewService(pin, env)
  /\ ops' = ops + 1
  /\ last' = [op |-> "construct"]
  /\ UNCHANGED <<now, aggregated_results, result_items, braveRaw, serperRaw, cache, env,
                 hist, served, pin, inflight>>

\* unifiedSearchService.ts:136-141
SetDefaultEngine ==
  /\ ops < MaxOps
  /\ pout.built
  /\ \E engineKey \in Hints \ {"none"} :
       /\ pout' = IF engineKey \in pout.searchEngines
                    THEN [pout EXCEPT !.defaultEngine = engineKey] ELSE pout
       /\ last' = [op |-> "setDefaultEngine", engineKey |-> engineKey,
                   thrown |-> engineKey \notin pout.searchEngines]
  /\ ops' = ops + 1
  /\ UNCHANGED <<now, aggregated_results, result_items, braveRaw, serperRaw, cache, env,
                 hist, served, pin, inflight>>

\* unifiedSearchService.ts:129-131: addSearchEngine(key, engine), for a key of
\* the configuration or a new one
AddSearchEngine ==
  /\ ops < MaxOps
  /\ pout.built
  /\ \E key \in {"brave", "custom"} :
       /\ pout' = [pout EXCEPT !.searchEngines = @ \cup {key}]
       /\ last' = [op |-> "addSearchEngine", key |-> key]
  /\ ops' = ops + 1
  /\ UNCHANGED <<now, aggregated_results, result_items, braveRaw, serperRaw, cache, env,
                 hist, served, pin, inflight>>

\* unifiedSearchService.ts:162-180: the engine whose search is called, if any
Dispatch(service, engineKey) ==
  LET key == SearchKey(engineKey, service.defaultEngine)
  IN  [key |-> key, available |-> key \in service.searchEngines]

\* unifiedSearchService.ts:162-217: search(request, engineKey) up to the call
\* of engine.search
ServiceSearch ==
  /\ ops < MaxOps
  /\ pout.built
  /\ \E engineKey \in Hints :
       last' = [op |-> "search", engineKey |-> engineKey,
                engine |-> Dispatch(pout, engineKey).key,
                available |-> Dispatch(pout, engineKey).available,
                defaultBefore |-> pout.defaultEngine]
  /\ ops' = ops + 1
  /\ UNCHANGED <<now, aggregated_results, result_items, braveRaw, serperRaw, cache, env,
                 hist, served, pin, pout, inflight>>

NextSelect == Construct \/ SetDefaultEngine \/ AddSearchEngine \/ ServiceSearch

SpecSelect == InitSelect /\ [][NextSelect]_vars

-----------------------------------------------------------------------------
(* CacheService on a store that has been in use: setCache with its sweep and
   invalidateCache.  A store failure is the subject of SpecCache, not of this
   specification *)

\* RegExp: the patterns are written with literal characters, '.', '*', '^'
\* and '$'; '(' stands unclosed.  A '*' with nothing to repeat and an unclosed
\* group make new RegExp throw a SyntaxError
RegExpValid(pattern) ==
  \A i \in 1..Len(pattern) :
    /\ pattern[i] # 40
    /\ pattern[i] = 42 => (i > 1 /\ pattern[i - 1] \notin {42, 94, 36})

\* '.' matches every character of a key
AtomMatches(atom, char) == atom = 46 \/ atom = char

\* the pattern from position i matches the text at position j
RECURSIVE MatchHere(_, _, _, _)
MatchHere(pattern, i, text, j) ==
  IF i > Len(pattern) THEN TRUE
  ELSE IF pattern[i] = 94 THEN j = 1 /\ MatchHere(pattern, i + 1, text, j)
  ELSE IF pattern[i] = 36 THEN j = Len(text) + 1 /\ MatchHere(pattern, i + 1, text, j)
  ELSE IF i < Len(pattern) /\ pattern[i + 1] = 42
    THEN \E k \in 0..(Len(text) + 1 - j) :
           /\ \A m \in j..(j + k - 1) : AtomMatches(pattern[i], text[m])
           /\ MatchHere(pattern, i + 2, text, j + k)
  ELSE /\ j <= Len(text)
       /\ AtomMatches(pattern[i], text[j])
       /\ MatchHere(pattern, i + 1, text, j + 1)

\* RegExp.prototype.test without flags: a match may start anywhere
RegExpTest(pattern, text) == \E j \in 1..(Len(text) + 1) : MatchHere(pattern, 1, text, j)

\* an invalidation that takes the pattern for the whole key
InvalidateWholeKey(c, pattern) ==
  IF ~RegExpValid(pattern) THEN c
  ELSE [k \in {x \in DOMAIN c : ~MatchHere(<<94>> \o pattern \o <<36>>, 1, x, 1)} |-> c[k]]

\* part_004:171-183: the SyntaxError of an invalid pattern is caught and logged
invalidateCache(c, pattern) ==
  IF ~RegExpValid(pattern) THEN c
  ELSE [k \in {x \in DOMAIN c : ~RegExpTest(pattern, x)} |-> c[k]]

\* search.ts:256-277: DELETE /cache?pattern=..., the pattern left out being '.*'
DeleteCacheRoute(c, param) ==
  LET pattern == IF param = <<>> THEN <<46, 42>> ELSE param
  IN  [status |-> 200, pattern |-> pattern, cache |-> invalidateCache(c, pattern)]

\* the key "k<i>"
StoreKey(i) == <<107>> \o DecDigits(i)

\* a store of n entries written at time 0, the first short of them with the
\* ttl of 'health' and the others with the ttl of 'search'
FilledStore(n, short) ==
  [k \in {StoreKey(i) : i \in 1..n} |->
     [data |-> "d1", timestamp |-> 0,
      ttl |-> IF \E i \in 1..short : k = StoreKey(i)
                THEN HEALTH_CACHE_TTL ELSE SEARCH_CACHE_TTL]]

\* stores below, at and above the size at which setCache sweeps
FilledStores ==
  { FilledStore(12, 2), FilledStore(CACHE_SWEEP_SIZE, 2),
    FilledStore(CACHE_SWEEP_SIZE + 3, 2) }

\* "k1", "^k1$", "k.*9$", "(" and "*k", and the parameter left out
Patterns ==
  { <<107, 49>>, <<94, 107, 49, 36>>, <<107, 46, 42, 57, 36>>, <<40>>, <<42, 107>>, <<>> }

InitStore ==
  /\ now = 0
  /\ aggregated_results = EmptyMap
  /\ result_items = <<>>
  /\ braveRaw = EmptyMap
  /\ serperRaw = EmptyMap
  /\ cache \in FilledStores
  /\ env = [BRAVE |-> TRUE, SERPER |-> TRUE]
  /\ last = NoLast
  /\ hist = EmptyMap
  /\ ops = 0
  /\ served = {}
  /\ pin = 0
  /\ pout = 0
  /\ inflight = <<>>

\* CacheService.setCache(cacheKey, data, {ttl}) of a key in use and of a new key
StoreSet ==
  /\ ops < MaxOps
  /\ \E cacheKey \in {StoreKey(3), <<110, 101, 119>>}, ttl \in CacheTtls :
       /\ cache' = setCache(cache, cacheKey, "d2", ttl, now)
       /\ last' = [op |-> "set", key |-> cacheKey, ttl |-> ttl, before |-> cache, at |-> now]
  /\ ops' = ops + 1
  /\ UNCHANGED <<now, aggregated_results, result_items, braveRaw, serperRaw, env, hist,
                 served, pin, pout, inflight>>

\* DELETE /cache
DeleteCache ==
  /\ ops < MaxOps
  /\ \E param \in Patterns :
       \E r \in {DeleteCacheRoute(cache, param)} :
         /\ cache' = r.cache
         /\ last' = [op |-> "invalidate", param |-> param, pattern |-> r.pattern,
                     status |-> r.status, before |-> cache, at |-> now]
  /\ ops' = ops + 1
  /\ UNCHANGED <<now, aggregated_results, result_items, braveRaw, serperRaw, env, hist,
                 served, pin, pout, inflight>>

NextStore == Tick \/ StoreSet \/ DeleteCache

SpecStore == InitStore /\ [][NextStore]_vars

-----------------------------------------------------------------------------
(* The aggregated search service on a store that holds one fingerprint: the
   state after a first aggregation, whose merged list pin remembers *)

\* the first aggregation: request by user u1 on the empty store at time 0
FirstAggregation(request, keys, up) ==
  AggregatedSearch(request, "u1", keys, [agg |-> EmptyMap, items |-> <<>>],
                   EmptyMap, EmptyMap, up, 0)

InitTotals ==
  /\ now = 0
  /\ env \in Envs
  /\ \E request \in AggRequests, up \in Ups :
       \E r \in {FirstAggregation(request, env, up)} :
         /\ aggregated_results = r.db.agg
         /\ result_items = r.db.items
         /\ braveRaw = r.braveRaw
         /\ serperRaw = r.serperRaw
         /\ hist = HistAfter(EmptyMap, r.calls, r.braveRaw, r.serperRaw, 0)
         /\ pin = [aggId |-> generateAggId(request), merged |-> r.deduped]
  /\ cache = EmptyMap
  /\ last = NoLast
  /\ ops = 0
  /\ served = {}
  /\ pout = 0
  /\ inflight = <<>>

NextTotals == Tick \/ AggSearch

SpecTotals == InitTotals /\ [][NextTotals]_vars

-----------------------------------------------------------------------------
(* Aggregated searches in flight together: AggregatedSearchService.search, one
   step per await on the durable store.  The awaits inside fetchFromEngines
   touch the raw caches and the request's own results array only, and are taken
   together *)

AggRaceRequests ==
  { [query |-> QueryA, orientation |-> "none", count |-> p[1], start |-> p[2], tbs |-> <<>>] :
      p \in Paging }

InitAggRace ==
  /\ now = 0
  /\ aggregated_results = EmptyMap
  /\ result_items = <<>>
  /\ braveRaw = EmptyMap
  /\ serperRaw = EmptyMap
  /\ cache = EmptyMap
  /\ env = [BRAVE |-> TRUE, SERPER |-> TRUE]
  /\ last = NoLast
  /\ hist = EmptyMap
  /\ ops = 0
  /\ served = {}
  /\ pin = 0
  /\ pout = 0
  /\ inflight = <<>>

\* aggregatedSearchService.ts:34-36: search is entered and computes the fingerprint
AggArrive ==
  /\ ops < MaxOps
  /\ \E request \in AggRaceRequests :
       inflight' = Append(inflight,
                          [pc |-> "meta", request |-> request, userId |-> "u1",
                           aggId |-> generateAggId(request), miss |-> FALSE,
                           optimized |-> <<>>, stored |-> FALSE,
                           results |-> <<>>, totalResults |-> 0])
  /\ ops' = ops + 1
  /\ last' = [op |-> "arrive", p |-> ops + 1]
  /\ UNCHANGED <<now, aggregated_results, result_items, braveRaw, serperRaw, cache, env,
                 hist, served, pin, pout>>

\* aggregatedSearchService.ts:37-38: await this.getAggregatedResult(aggId)
MetaStep(p) ==
  /\ inflight[p].pc = "meta"
  /\ inflight' = [inflight EXCEPT ![p] =
                    IF HasAggregatedResult(aggregated_results, @.aggId)
                      THEN [@ EXCEPT !.pc = "page"]
                      ELSE [@ EXCEPT !.pc = "fetch", !.miss = TRUE]]
  /\ last' = [op |-> "meta", p |-> p]
  /\ UNCHANGED <<now, aggregated_results, result_items, braveRaw, serperRaw, cache, env,
                 hist, ops, served, pin, pout>>

\* aggregatedSearchService.ts:39-41: await this.fetchFromEngines(request), then
\* deduplicateResults and optimizeResults
FetchStep(p) ==
  /\ inflight[p].pc = "fetch"
  /\ \E up \in Ups :
       \E f \in {fetchFromEngines(inflight[p].request, env, braveRaw, serperRaw, up, now)} :
         /\ braveRaw' = f.braveRaw
         /\ serperRaw' = f.serperRaw
         /\ inflight' = [inflight EXCEPT ![p] =
                           [@ EXCEPT !.pc = "store",
                                     !.optimized = optimizeResults(deduplicateResults(f.results))]]
  /\ last' = [op |-> "fetch", p |-> p]
  /\ UNCHANGED <<now, aggregated_results, result_items, cache, env,
                 hist, ops, served, pin, pout>>

\* aggregatedSearchService.ts:44-58: await this.storeAggregatedResult(...), one
\* db.batch
PersistStep(p) ==
  /\ inflight[p].pc = "store"
  /\ \E db \in {storeAggregatedResult(
                  [agg |-> aggregated_results, items |-> result_items],
                  [id |-> inflight[p].aggId, query |-> inflight[p].request.query,
                   orientation |-> inflight[p].request.orientation,
                   tbs |-> inflight[p].request.tbs, created_at |-> now,
                   expires_at |-> now + AGG_TTL_MS, user_id |-> inflight[p].userId],
                  inflight[p].optimized)} :
       /\ aggregated_results' = db.agg
       /\ result_items' = db.items
  /\ inflight' = [inflight EXCEPT ![p] = [@ EXCEPT !.pc = "page", !.stored = TRUE]]
  /\ last' = [op |-> "persist", p |-> p]
  /\ UNCHANGED <<now, braveRaw, serperRaw, cache, env, hist, ops, served, pin, pout>>

\* aggregatedSearchService.ts:59-63: meta is read again, then
\* await this.getPaginatedResults(aggId, offset, count)
PageStep(p) ==
  /\ inflight[p].pc = "page"
  /\ LET count == IF inflight[p].request.count > 0 THEN inflight[p].request.count ELSE 10
         start == IF inflight[p].request.start > 0 THEN inflight[p].request.start ELSE 1
     IN  inflight' = [inflight EXCEPT ![p] =
                        [@ EXCEPT !.pc = "total",
                                  !.results = getPaginatedResults(result_items, inflight[p].aggId,
                                                                  start - 1, count)]]
  /\ last' = [op |-> "page", p |-> p]
  /\ UNCHANGED <<now, aggregated_results, result_items, braveRaw, serperRaw, cache, env,
                 hist, ops, served, pin, pout>>

\* aggregatedSearchService.ts:64-92: await this.getTotalResults(aggId); return
TotalStep(p) ==
  /\ inflight[p].pc = "total"
  /\ inflight' = [inflight EXCEPT ![p] =
                    [@ EXCEPT !.pc = "done",
                              !.totalResults = getTotalResults(result_items, inflight[p].aggId)]]
  /\ last' = [op |-> "total", p |-> p]
  /\ UNCHANGED <<now, aggregated_results, result_items, braveRaw, serperRaw, cache, env,
                 hist, ops, served, pin, pout>>

AggMeta == \E p \in DOMAIN inflight : MetaStep(p)

AggFetch == \E p \in DOMAIN inflight : FetchStep(p)

AggPersist == \E p \in DOMAIN inflight : PersistStep(p)

AggPage == \E p \in DOMAIN inflight : PageStep(p)

AggTotal == \E p \in DOMAIN inflight : TotalStep(p)

NextAggRace == AggArrive \/ AggMeta \/ AggFetch \/ AggPersist \/ AggPage \/ AggTotal

SpecAggRace == InitAggRace /\ [][NextAggRace]_vars

-----------------------------------------------------------------------------
(* GET /images with and without a quality hint: the tbs parameter of the
   query string *)

\* "isz:l"
TbsLarge == <<105, 115, 122, 58, 108>>

HintInput(engine, tbs) ==
  [query |-> QueryA, orientation |-> "none", count |-> 0, start |-> 0,
   engine |-> engine, tbs |-> tbs, userId |-> "u1"]

HintQueries ==
  { RouteQuery(HintInput(engine, tbs)) :
      engine \in {"none", "serper", "google"}, tbs \in {<<>>, TbsLarge} }

\* GET /images
ImagesHint ==
  /\ ops < MaxOps
  /\ \E params \in HintQueries : ImagesStep(params)

NextHint == Tick \/ ImagesHint

SpecHint == Init /\ [][NextHint]_vars

-----------------------------------------------------------------------------
(* The first aggregation of a fingerprint, for two requests that differ in
   count and start only and meet the same provider answers *)

FirstPaging == { <<0, 0>>, <<1, 1>>, <<2, 1>>, <<2, 3>>, <<10, 11>>, <<11, 1>> }

FirstUps == Ups \cup {[google |-> GoogleBig, brave |-> BraveHits, serper |-> SerperHits]}

FirstRequest(p) ==
  [query |-> QueryA, orientation |-> "none", count |-> p[1], start |-> p[2], tbs |-> <<>>]

InitFirst ==
  /\ now = 0
  /\ aggregated_results = EmptyMap
  /\ result_items = <<>>
  /\ braveRaw = EmptyMap
  /\ serperRaw = EmptyMap
  /\ cache = EmptyMap
  /\ env \in Envs
  /\ last = NoLast
  /\ hist = EmptyMap
  /\ ops = 0
  /\ served = {}
  /\ pin \in [a : FirstPaging, b : FirstPaging, up : FirstUps]
  /\ pout = [done |-> FALSE]
  /\ inflight = <<>>

\* AggregatedSearchService.search of either request, each as the first request
\* on an empty store
FirstOfEach ==
  /\ ~pout.done
  /\ \E ra \in {FirstAggregation(FirstRequest(pin.a), env, pin.up)} :
       \E rb \in {FirstAggregation(FirstRequest(pin.b), env, pin.up)} :
         pout' = [done |-> TRUE,
                  aggId |-> <<generateAggId(FirstRequest(pin.a)),
                              generateAggId(FirstRequest(pin.b))>>,
                  persisted |-> <<ItemsOf(ra.db.items, generateAggId(FirstRequest(pin.a))),
                                  ItemsOf(rb.db.items, generateAggId(FirstRequest(pin.b)))>>,
                  asked |-> <<ra.asked, rb.asked>>]
  /\ UNCHANGED <<now, aggregated_results, result_items, braveRaw, serperRaw, cache, env,
                 last, hist, ops, served, pin, inflight>>

NextFirst == FirstOfEach

SpecFirst == InitFirst /\ [][NextFirst]_vars

-----------------------------------------------------------------------------
(* routes/search.ts: GET /health, a health check of one engine or of all,
   behind the response cache *)

\* part_004:92-97 with generateCacheKey (31-43): "health:" and the hash of
\* {"check":"search-service"}
createHealthCacheKey ==
  <<104, 101, 97, 108, 116, 104, 58>>
    \o simpleHash(<<123, 34, 99, 104, 101, 99, 107, 34, 58, 34, 115, 101, 97, 114, 99, 104,
                    45, 115, 101, 114, 118, 105, 99, 101, 34, 125>>)

\* the health check of one engine: engine.healthCheck() of a registered
\* engine (the mock engine is always healthy, part_006:157-163), and
\* 'Engine not found' otherwise.  up tells which providers answer their probe
EngineHealth(key, registered, up) ==
  [key |-> key,
   healthy |-> IF key \notin registered THEN FALSE
               ELSE IF key = "mock" THEN TRUE
               ELSE up[key]]

\* unifiedSearchService.ts:222-267: healthCheck(engineKey)
healthCheck(engineKey, registered, up) ==
  LET enginesToCheck == IF engineKey # "none" THEN {engineKey} ELSE registered
      results == {EngineHealth(key, registered, up) : key \in enginesToCheck}
  IN  [healthy |-> \A r \in results : r.healthy, engines |-> results]

\* search.ts:167-203 for the query parameter engine on the response cache c
HealthRoute(engine, keys, c, up, t) ==
  withCache(c, createHealthCacheKey, healthCheck(engine, RegisteredEngines(keys), up),
            HEALTH_CACHE_TTL, t, FALSE)

HealthEnvs ==
  { [BRAVE |-> FALSE, ZENSERP |-> FALSE, SERPER |-> TRUE, GOOGLE |-> TRUE],
    [BRAVE |-> TRUE, ZENSERP |-> FALSE, SERPER |-> FALSE, GOOGLE |-> TRUE],
    [BRAVE |-> FALSE, ZENSERP |-> FALSE, SERPER |-> FALSE, GOOGLE |-> FALSE] }

\* which providers answer the probe of their adapter
HealthUps == [{"google", "serper", "zenserp", AVAILABLE_ENGINES_BRAVE} -> BOOLEAN]

HealthEngines == {"none", "google", "serper", "mock", "brave"}

InitHealth ==
  /\ now = 0
  /\ aggregated_results = EmptyMap
  /\ result_items = <<>>
  /\ braveRaw = EmptyMap
  /\ serperRaw = EmptyMap
  /\ cache = EmptyMap
  /\ env \in HealthEnvs
  /\ last = NoLast
  /\ hist = EmptyMap
  /\ ops = 0
  /\ served = {}
  /\ pin = 0
  /\ pout = 0
  /\ inflight = <<>>

\* the provider states that matter to a request: none when it is answered from
\* the cache
HealthUpsFor ==
  IF getFromCache(cache, createHealthCacheKey, now).hit
    THEN {CHOOSE up \in HealthUps : TRUE} ELSE HealthUps

\* GET /health?engine=...
Health ==
  /\ ops < MaxOps
  /\ \E engine \in HealthEngines, up \in HealthUpsFor :
       \E r \in {HealthRoute(engine, env, cache, up, now)} :
         /\ cache' = r.cache
         /\ last' = [op |-> "health", engine |-> engine, data |-> r.data,
                     cached |-> r.fromCache, cacheKey |-> createHealthCacheKey,
                     registered |-> RegisteredEngines(env)]
  /\ ops' = ops + 1
  /\ UNCHANGED <<now, aggregated_results, result_items, braveRaw, serperRaw, env,
                 hist, served, pin, pout, inflight>>

NextHealth == Tick \/ Health

SpecHealth == InitHealth /\ [][NextHealth]_vars

-----------------------------------------------------------------------------
(* routes/search.ts: GET /images and POST /cache/clear, in the state after a
   first search of user u1 on the aggregated path *)

ClearEnv ==
  [BRAVE |-> TRUE, SERPER |-> TRUE, GOOGLE |-> TRUE, ZENSERP |-> FALSE,
   USE_AGGREGATED_SEARCH |-> TRUE]

ClearInputs ==
  { RouteInput(q, 0, 0, "none", u) : q \in {QueryA, QueryB}, u \in Users }

ClearQueries == { RouteQuery(input) : input \in ClearInputs }

InitClear ==
  /\ now = 0
  /\ env = ClearEnv
  /\ \E input \in {RouteInput(QueryA, 0, 0, "none", "u1")}, up \in RouteUps :
       \E r \in {ImagesRoute(input, EmptyMap, [agg |-> EmptyMap, items |-> <<>>],
                             EmptyMap, EmptyMap, env, up, 0)} :
         /\ cache = r.cache
         /\ aggregated_results = r.db.agg
         /\ result_items = r.db.items
         /\ braveRaw = r.braveRaw
         /\ serperRaw = r.serperRaw
         /\ hist = HistAfter(EmptyMap, r.calls, r.braveRaw, r.serperRaw, 0)
         /\ served = {[input |-> input, cacheKey |-> r.cacheKey]}
  /\ last = NoLast
  /\ ops = 0
  /\ pin = 0
  /\ pout = 0
  /\ inflight = <<>>

\* GET /images
ImagesClear ==
  /\ ops < MaxOps
  /\ \E params \in ClearQueries : ImagesStep(params)

\* search.ts:302-325: POST /cache/clear by the signed-in user
CacheClear ==
  /\ ops < MaxOps
  /\ \E userId \in Users :
       \E db \in {clearUserCache([agg |-> aggregated_results, items |-> result_items],
                                 userId)} :
         /\ aggregated_results' = db.agg
         /\ result_items' = db.items
         /\ last' = [op |-> "clear", userId |-> userId, status |-> 200]
  /\ ops' = ops + 1
  /\ UNCHANGED <<now, braveRaw, serperRaw, cache, env, hist, served, pin, pout, inflight>>

NextClear == Tick \/ ImagesClear \/ CacheClear

SpecClear == InitClear /\ [][NextClear]_vars

-----------------------------------------------------------------------------
(* Claims *)

NoDupUrls(items) ==
  \A i, j \in 1..Len(items) : items[i].url = items[j].url => i = j

\* C2: once an aggregated search has completed, the persisted list of every
\* fingerprint, and the page just read from it, has no two entries with the
\* same image url.
C2_NoDuplicateUrls ==
  /\ \A aggId \in DOMAIN aggregated_results : NoDupUrls(ItemsOf(result_items, aggId))
  /\ last.op = "aggregated" => NoDupUrls(last.resp.results)

\* an aggregation met duplicate urls, persisted its list and read a page of it
C2_Witness ==
  /\ last.op = "aggregated"
  /\ last.miss
  /\ Len(last.deduped) < Len(last.raw)
  /\ Len(last.resp.results) >= 2

EngineOrder(e) == CASE e = "google" -> 1 [] e = "brave" -> 2 [] e = "serper" -> 3

\* the k-th smallest element of a finite set of numbers
Kth(S, k) == CHOOSE i \in S : Cardinality({j \in S : j <= i}) = k

\* C3: the fetched results are concatenated Google pages (in page order), then
\* Brave, then Serper; deduplication keeps exactly the first occurrence of each
\* url in that order, as an order-preserving subsequence.
C3_DedupKeepsFirst ==
  pout.done =>
    LET raw == pout.raw
        deduped == pout.deduped
        first == {i \in 1..Len(raw) : \A j \in 1..(i - 1) : raw[j].url # raw[i].url}
    IN  /\ \A i, j \in 1..Len(raw) :
             i < j => /\ EngineOrder(raw[i].id[1]) <= EngineOrder(raw[j].id[1])
                      /\ raw[i].id[1] = raw[j].id[1] => raw[i].id[2] < raw[j].id[2]
        /\ Len(deduped) = Cardinality(first)
        /\ \A k \in 1..Len(deduped) : deduped[k] = raw[Kth(first, k)]

\* a url returned by two providers was merged: the later copy was dropped
C3_Witness ==
  /\ pout.done
  /\ \E i, j \in 1..Len(pout.raw) :
       /\ i < j
       /\ pout.raw[i].url = pout.raw[j].url
       /\ pout.raw[i].id[1] # pout.raw[j].id[1]
  /\ Len(pout.deduped) >= 2

Known(a) == a.width # 0 /\ a.height # 0

ZeroSubseq(items) ==
  LET Z == {i \in 1..Len(items) : ~Known(items[i])}
  IN  [k \in 1..Cardinality(Z) |-> items[Kth(Z, k)]]

\* C4: in a ranked list adjacent entries of known resolution are in descending
\* width*height order, entries with zero or missing width or height come after
\* all entries of known resolution, and keep their relative input order.
C4_RankOrder ==
  pout.done =>
    LET r == pout.optimized
    IN  /\ \A i \in 1..(Len(r) - 1) :
             Known(r[i]) /\ Known(r[i + 1]) =>
               r[i].width * r[i].height >= r[i + 1].width * r[i + 1].height
        /\ \A i, j \in 1..Len(r) : i < j => ~(~Known(r[i]) /\ Known(r[j]))
        /\ ZeroSubseq(r) = ZeroSubseq(pout.deduped)

\* ranking moved an entry of known resolution ahead of two entries without one
C4_Witness ==
  /\ pout.done
  /\ pout.optimized # pout.deduped
  /\ Cardinality({i \in 1..Len(pout.optimized) : ~Known(pout.optimized[i])}) >= 2
  /\ \E i \in 1..Len(pout.optimized) : Known(pout.optimized[i])

\* the step is an aggregated search for a fingerprint whose persisted set exists
\* and has not expired
LiveHitStep ==
  /\ ops' = ops + 1
  /\ last'.op = "aggregated"
  /\ last'.aggId \in DOMAIN aggregated_results
  /\ aggregated_results[last'.aggId].expires_at >= now

\* C5: while the persisted set of a fingerprint exists and has not expired, a
\* further search for it (any start, count or user) makes no provider call and
\* leaves the persisted row and its items as they were.
C5_LiveSetOnlyRead ==
  [][LiveHitStep =>
       /\ last'.calls = <<>>
       /\ aggregated_results'[last'.aggId] = aggregated_results[last'.aggId]
       /\ ItemsOf(result_items', last'.aggId) = ItemsOf(result_items, last'.aggId)
       /\ braveRaw' = braveRaw /\ serperRaw' = serperRaw]_vars

\* a second search, by another user and for another page, found the live set
C5_Witness ==
  /\ last.op = "aggregated"
  /\ ~last.miss
  /\ ~last.stale
  /\ aggregated_results[last.aggId].user_id # last.userId
  /\ last.request.start = 3
  /\ Len(ItemsOf(result_items, last.aggId)) >= 3

\* C6: a search arriving for a fingerprint whose persisted set has expires_at
\* in the past calls the providers again and replaces the set.
C6_ExpiredRefetched ==
  (last.op = "aggregated" /\ last.stale) =>
     /\ last.miss
     /\ last.calls # <<>>
     /\ aggregated_results[last.aggId].created_at = now

Adapters == {"aggregated", "google", "brave", "serper"}

\* C1: for start >= 1, count >= 1 and totalResults >= 0 the window of the
\* aggregated search and of each adapter has currentPage = ceil(start/count),
\* totalPages = ceil(totalResults/count), resultsPerPage = count, and
\* hasNextPage exactly when currentPage < totalPages.
C1_WindowFormula ==
  pout.done =>
    \A a \in Adapters :
      LET w == pout.window[a]
      IN  /\ w.currentPage = Ceil(pin.start, pin.count)
          /\ w.totalPages = Ceil(pin.total, pin.count)
          /\ w.resultsPerPage = pin.count
          /\ w.hasNextPage = (w.currentPage < w.totalPages)

\* C7: for a bulk adapter, while the first upstream fetch of a normalized
\* (query, orientation) succeeded and is at most 7 days old, it is the only
\* fetch made for it and the cached set is still the one it stored; every bulk
\* fetch asks for the full batch of 100 from offset 0, whatever count and start
\* the request carried.
C7_OneBulkFetch ==
  /\ \A k \in DOMAIN hist :
       (hist[k].firstOk /\ now - hist[k].firstAt <= RAW_CACHE_TTL) =>
          /\ hist[k].fetches = 1
          /\ k[2] \in DOMAIN RawOf(k[1])
          /\ RawOf(k[1])[k[2]] = hist[k].firstSet
  /\ last.op = "engine" =>
       /\ Len(last.calls) <= 1
       /\ \A i \in 1..Len(last.calls) :
            last.calls[i].num = BULK_BATCH /\ last.calls[i].start = 0

\* a later page of a query fetched exactly 7 days before was served from the
\* cached set, without an upstream call
C7_Witness ==
  /\ last.op = "engine"
  /\ last.calls = <<>>
  /\ last.resp.success
  /\ last.request.start = 3
  /\ \E k \in DOMAIN hist :
       /\ k = <<last.engine, last.rawKey>>
       /\ hist[k].fetches = 1
       /\ now - hist[k].firstAt = RAW_CACHE_TTL
       /\ hist[k].firstSet.query # last.request.query

\* C8: a successful search of a bulk adapter returns exactly the entries at
\* positions start .. start+count-1 of the cached filtered set (fewer when the
\* set ends), in cached order, and reports the length of that set as
\* totalResults; 85 filtered results with count 10, start 1 give 9 pages and a
\* next page.
C8_PageIsSlice ==
  (last.op = "engine" /\ last.resp.success) =>
    LET set == RawOf(last.engine)[last.rawKey].allResults
        start == IF last.request.start # 0 THEN last.request.start ELSE 1
        count == IF last.request.count # 0 THEN last.request.count ELSE 10
        n == Max(0, Min(count, Len(set) - start + 1))
        w == last.resp.pagination
    IN  /\ last.resp.results = [i \in 1..n |-> set[start + i - 1]]
        /\ w.totalResults = Len(set)
        /\ (Len(set) = 85 /\ count = 10 /\ start = 1) =>
             (w.totalResults = 85 /\ w.totalPages = 9 /\ w.hasNextPage)

\* 100 upstream items, 85 of them valid, and the first page of 10 was asked for
C8_Witness ==
  /\ last.op = "engine"
  /\ last.resp.success
  /\ last.request.count = 10
  /\ last.request.start = 1
  /\ Len(last.resp.results) = 10
  /\ last.resp.pagination.totalResults = 85
  /\ Len(last.calls) = 1

NormCount(input) == IF input.count # 0 THEN input.count ELSE 10

NormStart(input) == IF input.start # 0 THEN input.start ELSE 1

\* the request goes to the Google adapter of the unified service
ToGoogle(input) ==
  /\ ~env.USE_AGGREGATED_SEARCH
  /\ env.GOOGLE
  /\ \/ input.engine = "google"
     \/ input.engine = "none" /\ setDefaultEngineFromConfig(env) = "google"

\* the two requests agree on everything but count and start
SameSearch(a, b) ==
  /\ Trim(ToLower(a.query)) = Trim(ToLower(b.query))
  /\ a.orientation = b.orientation
  /\ a.engine = b.engine
  /\ a.userId = b.userId
  /\ a.tbs = b.tbs

C10_BulkKeyIgnoresPaging ==
  /\ \A a, b \in served :
       (a.input.engine \in {"serper", "brave"} /\ SameSearch(a.input, b.input))
         => a.cacheKey = b.cacheKey
  /\ \A a, b \in served :
       (/\ a.input.engine = "google"
        /\ SameSearch(a.input, b.input)
        /\ <<NormCount(a.input), NormStart(a.input)>> # <<NormCount(b.input), NormStart(b.input)>>)
         => a.cacheKey # b.cacheKey

\* the entry e is expired at time t: now - storedAt > ttlSeconds * 1000
EntryExpired(e, t) == t - e.timestamp > e.ttl * 1000

\* C11: a get of a key whose entry is expired reports absence and removes the
\* entry; a get of a key whose entry is not expired returns its data and
\* leaves the store as it was.
C11_GetHonoursTtl ==
  (last.op = "get" /\ last.key \in DOMAIN last.before) =>
    IF EntryExpired(last.before[last.key], last.at)
      THEN /\ ~last.hit
           /\ last.key \notin DOMAIN cache
           /\ \A k \in DOMAIN last.before \ {last.key} :
                k \in DOMAIN cache /\ cache[k] = last.before[k]
      ELSE /\ last.hit
           /\ last.data = last.before[last.key].data
           /\ cache = last.before

\* a get one millisecond after the end of the ttl found the entry expired
C11_Witness ==
  /\ last.op = "get"
  /\ last.key \in DOMAIN last.before
  /\ last.before[last.key].ttl = SEARCH_CACHE_TTL
  /\ last.at - last.before[last.key].timestamp = SEARCH_CACHE_TTL * 1000 + 1
  /\ ~last.hit

\* the step is a withCache that follows a withCache for the same key whose store failed
AfterFailedStore ==
  /\ last.op = "withCache" /\ last.throws /\ ~last.fromCache
  /\ ops' = ops + 1
  /\ last'.op = "withCache"
  /\ last'.key = last.key

\* C12: when the store fails inside withCache, the caller gets the fresh
\* result with fromCache = false, the key has no entry afterwards, and the
\* next withCache for the key runs its operation again.
C12_FailedStoreIsHarmless ==
  /\ [](last.op = "withCache" /\ last.throws /\ ~last.fromCache =>
          /\ last.data = last.fresh
          /\ last.key \notin DOMAIN cache)
  /\ [][AfterFailedStore => (last'.ran /\ ~last'.fromCache /\ last'.data = last'.fresh)]_vars

\* a store failed, and the following withCache for the key ran its operation
C12_Witness ==
  /\ last.op = "withCache"
  /\ last.afterFailure
  /\ last.ran
  /\ ~last.fromCache
  /\ last.key \notin DOMAIN last.before

\* C13: a search during which the durable store fails (at the lookup or at
\* the persisting of the set) still returns success, with the results freshly
\* fetched from the providers.
C13_StoreFailureIsAMiss ==
  (last.op = "aggregated" /\ last.fault \in {"lookup", "store"}) =>
    /\ last.resp.success
    /\ last.calls # <<>>

\* C14: a request whose query string carries count=0 or start=0 is answered
\* with an error (success = false); it is not served with the defaults.
C14_ZeroRejected ==
  (last.op = "images" /\ (last.params.count = <<48>> \/ last.params.start = <<48>>)) =>
    ~last.result.success

\* the validation of every engine rejects the request
RejectedByEveryEngine(input) ==
  \A e \in {"google", "brave", "serper"} :
    validateSearchRequest(input, MaxQueryLen(e), MaxEngineCount(e)) # "ok"

\* C15: a request that fails validation is answered with an error, makes no
\* upstream call and leaves the response cache, the raw result caches and the
\* persisted aggregated sets as they were.
C15_InvalidTouchesNothing ==
  [][(ops' = ops + 1 /\ last'.op = "images" /\ RejectedByEveryEngine(last'.input)) =>
       /\ ~last'.result.success
       /\ last'.calls = <<>>
       /\ cache' = cache
       /\ braveRaw' = braveRaw
       /\ serperRaw' = serperRaw
       /\ aggregated_results' = aggregated_results
       /\ result_items' = result_items]_vars

\* the providers that the last search called
Called == {last.calls[i].engine : i \in 1..Len(last.calls)}

\* the called providers whose call failed, and those that answered
FailedProviders == {e \in Called : ~last.up[e].ok}

AnsweringProviders == {e \in Called : last.up[e].ok}

\* the providers that are enabled: Google always, Brave and Serper with their key
EnabledProviders ==
  {"google"} \cup (IF env.BRAVE THEN {"brave"} ELSE {}) \cup (IF env.SERPER THEN {"serper"} ELSE {})

\* the urls that provider e hands over when it answers
Offered(e) ==
  IF e = "google"
    THEN {last.up.google.corpus[i].url : i \in 1..Len(last.up.google.corpus)}
    ELSE {last.up[e].items[i].url : i \in {j \in 1..Len(last.up[e].items) : last.up[e].items[j].valid}}

\* the last search was a fresh aggregation on a working store during which
\* some provider failed and some other provider answered
PartialFailure ==
  /\ last.op = "aggregated"
  /\ last.fault = "none"
  /\ last.miss
  /\ FailedProviders # {}
  /\ AnsweringProviders # {}

C17_AllFailedIsError ==
  (/\ last.op = "aggregated" /\ last.fault = "none" /\ last.miss
   /\ FailedProviders = EnabledProviders) =>
    ~last.resp.success

\* C18: every search call eventually returns: a request that has entered the
\* handler eventually completes, even when a provider never answers its fetch
C18_EverySearchReturns ==
  \A p \in 1..MaxOps :
    (p \in DOMAIN inflight) ~> (p \in DOMAIN inflight /\ inflight[p].pc = "done")

\* the provider serves the search keyed cacheKey: every answer it has given
\* to a request on that key is a success
ProviderServes(cacheKey) ==
  \A r \in DOMAIN inflight :
    (inflight[r].cacheKey = cacheKey /\ inflight[r].pc \in {"settled", "store", "done"}
       /\ inflight[r].fetched) => inflight[r].up.ok

\* two requests on the same key, both returned
BothReturned(p, q) ==
  /\ p # q
  /\ inflight[p].cacheKey = inflight[q].cacheKey
  /\ inflight[p].pc = "done"
  /\ inflight[q].pc = "done"

\* C19: nothing serialises identical requests, and none is needed: whatever
\* the interleaving of two requests on the same key, once both have returned
\* both hold a successful result, and at the step that returns the later one
\* the response cache holds a live, successful entry under the key
C19_RaceIsBenign ==
  \A p, q \in DOMAIN inflight :
    (BothReturned(p, q) /\ ProviderServes(inflight[p].cacheKey)) =>
      /\ inflight[p].resp.success
      /\ inflight[q].resp.success
      /\ (last.op \in {"lookup", "store"} /\ last.p \in {p, q}) =>
           LET g == getFromCache(cache, inflight[p].cacheKey, now)
           IN  g.hit /\ g.data.success /\ g.data \in {inflight[p].resp, inflight[q].resp}

\* on a cold cache both requests missed and both fetched from the provider
C19_Witness ==
  /\ cache # EmptyMap
  /\ \E p, q \in DOMAIN inflight :
       /\ BothReturned(p, q)
       /\ inflight[p].engine = "brave"
       /\ ~inflight[p].cached /\ ~inflight[q].cached
       /\ inflight[p].fetched /\ inflight[q].fetched
       /\ inflight[p].up.ok /\ inflight[q].up.ok
       /\ last.op = "store" /\ last.p \in {p, q}
       /\ getFromCache(cache, inflight[p].cacheKey, now).hit

\* the request about to be served repeats the one just served, whose search
\* ran and succeeded and whose response-cache entry is still live
RepeatsLive ==
  /\ last.op = "images"
  /\ last.keyed /\ ~last.cached /\ last.result.success
  /\ getFromCache(cache, last.cacheKey, now).hit
  /\ last'.op = "images"
  /\ ops' = ops + 1
  /\ last'.input = last.input

\* C20: of two identical requests, the second arriving while the entry of the
\* first is live, the first reports cached = false and the second reports
\* cached = true, calls no provider and returns the same results and pagination
C20_RepeatIsServedFromCache ==
  [][RepeatsLive =>
       /\ last'.cached
       /\ last'.calls = <<>>
       /\ last'.status = last.status
       /\ last'.result.results = last.result.results
       /\ last'.result.pagination = last.result.pagination
       /\ last'.result = last.result]_vars

\* a second request answered from the cache, some time after the first one
\* fetched a non-empty page
C20_Witness ==
  /\ last.op = "images"
  /\ ops = 2
  /\ now > 0
  /\ last.cached
  /\ last.calls = <<>>
  /\ last.result.success
  /\ Len(last.result.results) > 0
  /\ \E s \in served : s.input = last.input /\ s.cacheKey = last.cacheKey

\* the keys of the priority order that are registered, by position
RegisteredAt(order, registered) == {i \in 1..Len(order) : order[i] \in registered}

\* engine is the first registered key of the order
FirstRegistered(engine, order, registered) ==
  \E i \in RegisteredAt(order, registered) :
    /\ order[i] = engine
    /\ \A j \in RegisteredAt(order, registered) : i <= j

\* C21: in priority mode the default engine of a newly built service is the
\* first key of the priority order that is registered: a later key, mock
\* included, is the default only when no earlier key is registered
C21_PriorityPicksFirstRegistered ==
  (last.op = "construct" /\ pin.USE_OPTIMAL_SELECTION
     /\ RegisteredAt(pin.PRIORITY_ORDER, pout.searchEngines) # {}) =>
    FirstRegistered(pout.defaultEngine, pin.PRIORITY_ORDER, pout.searchEngines)

\* a service built in priority mode whose default is neither the first key of
\* the order nor mock
C21_Witness ==
  /\ last.op = "construct"
  /\ pin.USE_OPTIMAL_SELECTION
  /\ pin.PRIORITY_ORDER = PRIORITY_ORDER
  /\ pout.defaultEngine = "serper"
  /\ "google" \in pout.searchEngines
  /\ "zenserp" \notin pout.searchEngines

\* C22: in forced mode the forced engine is the default when it is registered;
\* when it is not, the default is the priority selection if fallback is
\* enabled, and otherwise construction fails with a configuration error (no
\* service is built)
C22_ForcedOrFail ==
  (last.op = "construct" /\ ~pin.USE_OPTIMAL_SELECTION) =>
    IF pin.FORCE_ENGINE \in RegisteredEngines(env)
      THEN pout.built /\ pout.defaultEngine = pin.FORCE_ENGINE
    ELSE IF pin.FALLBACK_TO_OPTIMAL
      THEN /\ pout.built
           /\ RegisteredAt(pin.PRIORITY_ORDER, pout.searchEngines) # {} =>
                FirstRegistered(pout.defaultEngine, pin.PRIORITY_ORDER, pout.searchEngines)
    ELSE ~pout.built

\* C23: a search that names an engine is given to that engine, or answered
\* 'not available' when the engine is not registered, whatever the default;
\* the search leaves the default engine as it was
C23_HintBypassesDefault ==
  [][(last'.op = "search" /\ ops' = ops + 1) =>
       /\ pout'.defaultEngine = pout.defaultEngine
       /\ last'.engineKey # "none" =>
            /\ last'.engine = last'.engineKey
            /\ last'.available = (last'.engineKey \in pout.searchEngines)
       /\ last'.engineKey = "none" => last'.engine = pout.defaultEngine]_vars

\* a search given to a registered engine that is not the default
C23_Witness ==
  /\ last.op = "search"
  /\ last.engineKey = "serper"
  /\ last.available
  /\ last.engine = "serper"
  /\ last.defaultBefore = "google"
  /\ pout.defaultEngine = "google"

\* C24: a window that reports totalResults = 0 has totalPages = 0 and neither
\* a next nor a previous page, whatever the start and count
C24_EmptyWindow ==
  pout.done =>
    \A a \in Adapters :
      LET w == pout.window[a]
      IN  w.totalResults = 0 =>
            /\ w.totalPages = 0
            /\ ~w.hasNextPage
            /\ ~w.hasPreviousPage

\* C25: a search whose start lies beyond totalResults succeeds with an empty
\* list of results and a window without a next page and without
\* nextStartIndex; it is never an error
C25_StartBeyondTotal ==
  pout.done =>
    \A a \in Adapters :
      pin.start > pout.resp[a].pagination.totalResults =>
        /\ pout.resp[a].success
        /\ pout.resp[a].results = <<>>
        /\ ~pout.resp[a].pagination.hasNextPage
        /\ pout.resp[a].pagination.nextStartIndex = 0

\* a start beyond a non-empty set, on a page that is not the first
C25_Witness ==
  /\ pout.done
  /\ pin.total > 0
  /\ pin.start > pin.total
  /\ pin.count < pin.total
  /\ \A a \in Adapters : pout.resp[a].pagination.totalResults = pin.total
  /\ pout.resp["aggregated"].pagination.hasPreviousPage

\* C26: an invalidation removes exactly the entries whose key the regular
\* expression matches and leaves every other entry as it was; a pattern that
\* is no regular expression removes nothing, and the caller sees no error
C26_InvalidateExactlyMatching ==
  last.op = "invalidate" =>
    /\ last.status = 200
    /\ DOMAIN cache =
         IF RegExpValid(last.pattern)
           THEN {k \in DOMAIN last.before : ~RegExpTest(last.pattern, k)}
           ELSE DOMAIN last.before
    /\ \A k \in DOMAIN cache : cache[k] = last.before[k]
    /\ last.pattern = <<94, 107, 49, 36>> => DOMAIN cache = DOMAIN last.before \ {StoreKey(1)}
    /\ last.pattern = <<46, 42>> => cache = EmptyMap
    /\ last.pattern = <<107, 49>> =>
         DOMAIN last.before \ DOMAIN cache =
           {StoreKey(i) : i \in {1} \cup 10..19 \cup 100..199} \cap DOMAIN last.before

\* the pattern k1 removed k1 and k10..k12 from a store of twelve entries and
\* left the other eight, among them entries of both ttls
C26_Witness ==
  /\ last.op = "invalidate"
  /\ last.pattern = <<107, 49>>
  /\ DOMAIN last.before = {StoreKey(i) : i \in 1..12}
  /\ DOMAIN cache = {StoreKey(i) : i \in 2..9}
  /\ cache[StoreKey(2)].ttl = HEALTH_CACHE_TTL
  /\ cache[StoreKey(3)].ttl = SEARCH_CACHE_TTL

\* C28: a set that leaves the store with more than 100 entries leaves no
\* expired entry in it, and no set removes an entry that is not expired
C28_SweepOnLargeStore ==
  last.op = "set" =>
    /\ Cardinality(DOMAIN cache) > CACHE_SWEEP_SIZE =>
         \A k \in DOMAIN cache : ~EntryExpired(cache[k], last.at)
    /\ \A k \in DOMAIN last.before :
         ~EntryExpired(last.before[k], last.at) =>
           /\ k \in DOMAIN cache
           /\ k # last.key => cache[k] = last.before[k]
    /\ last.key \in DOMAIN cache

\* a set of a new key into a store of 103 entries, two of them expired, swept
\* these two and left 102 entries
C28_Witness ==
  /\ last.op = "set"
  /\ Cardinality(DOMAIN last.before) = CACHE_SWEEP_SIZE + 3
  /\ EntryExpired(last.before[StoreKey(1)], last.at)
  /\ ~EntryExpired(last.before[StoreKey(3)], last.at)
  /\ last.key \notin DOMAIN last.before
  /\ Cardinality(DOMAIN cache) = CACHE_SWEEP_SIZE + 2
  /\ StoreKey(1) \notin DOMAIN cache

\* C27: the totalResults of every page served for a fingerprint is the number
\* of entries of the deduplicated merged list of that fingerprint
C27_TotalIsMergedCount ==
  last.op = "aggregated" =>
    /\ last.miss => last.resp.pagination.totalResults = Len(last.deduped)
    /\ last.aggId = pin.aggId => last.resp.pagination.totalResults = Len(pin.merged)

\* the raw cache of the adapter that the step searches
RawBefore == IF last'.engine = "brave" THEN braveRaw ELSE serperRaw

RawAfter == IF last'.engine = "brave" THEN braveRaw' ELSE serperRaw'

\* the step is a search of a bulk adapter that looks up a key holding a set
LooksUpStoredSet ==
  /\ last'.op = "engine"
  /\ ops' = ops + 1
  /\ validateSearchRequest(last'.request, MaxQueryLen(last'.engine),
                           MaxEngineCount(last'.engine)) = "ok"
  /\ last'.rawKey \in DOMAIN RawBefore

\* C29: a lookup that finds a set older than 7 days removes it, and the search
\* makes exactly one upstream fetch, whose set it stores under the same key; a
\* set that is at most 7 days old is served without an upstream fetch
C29_ExpiredSetRefetched ==
  [][LooksUpStoredSet =>
       IF now - RawBefore[last'.rawKey].fetchedAt > RAW_CACHE_TTL
         THEN /\ Len(last'.calls) = 1
              /\ IF last'.resp.success
                   THEN /\ last'.rawKey \in DOMAIN RawAfter
                        /\ RawAfter[last'.rawKey].fetchedAt = now
                        /\ RawAfter[last'.rawKey].query = last'.request.query
                   ELSE last'.rawKey \notin DOMAIN RawAfter
         ELSE /\ last'.calls = <<>>
              /\ last'.resp.success
              /\ RawAfter = RawBefore]_vars

\* a set fetched 7 days and one millisecond before was fetched again and the
\* new set stored
C29_Witness ==
  /\ last.op = "engine"
  /\ Len(last.calls) = 1
  /\ last.resp.success
  /\ \E k \in DOMAIN hist :
       /\ k = <<last.engine, last.rawKey>>
       /\ hist[k].fetches = 2
       /\ hist[k].firstOk
       /\ now - hist[k].firstAt = RAW_CACHE_TTL + 1
       /\ RawOf(last.engine)[last.rawKey].fetchedAt = now

\* the calls of last.asked that went to the adapter of an engine, in order
AskedOf(engine) == SelectSeq(last.asked, LAMBDA c : c.engine = engine)

\* aggregatedSearchService.ts:260-261: a bulk adapter exists when its key is set
BulkEnabled(engine) == IF engine = "brave" THEN env.BRAVE ELSE env.SERPER

\* the page size of the Google pages of the aggregation
PageCount == IF last.request.count > 0 THEN last.request.count ELSE 10

PersistedList(aggId) == ItemsOf(result_items, aggId)

\* the windows start = 1, 1+count, 1+2*count, ... of a fingerprint, one after
\* the other
ConsecutiveWindows(aggId, count) ==
  Flatten([k \in 1..Ceil(Len(PersistedList(aggId)), count) |->
             getPaginatedResults(result_items, aggId, (k - 1) * count, count)])

\* the step is a search of a fingerprint whose set is persisted
ReadsPersistedSet ==
  /\ last'.op = "aggregated"
  /\ ops' = ops + 1
  /\ last'.aggId \in DOMAIN aggregated_results

\* C31: a search of a persisted set returns the window [start-1, start-1+count)
\* of the persisted list, in persisted order, without fetching, deduplicating
\* or ranking again and without altering the store; the consecutive windows
\* start = 1, 1+count, ... of a persisted list make up the list, no entry
\* skipped or repeated
C31_ReadIsWindowOfPersisted ==
  /\ [](\A aggId \in DOMAIN aggregated_results : \A count \in 1..(MaxCount + 1) :
          ConsecutiveWindows(aggId, count) = PersistedList(aggId))
  /\ [][ReadsPersistedSet =>
          LET count == IF last'.request.count > 0 THEN last'.request.count ELSE 10
              start == IF last'.request.start > 0 THEN last'.request.start ELSE 1
          IN  /\ last'.resp.success
              /\ last'.resp.results =
                   Slice(PersistedList(last'.aggId), start - 1, start - 1 + count)
              /\ ~last'.miss
              /\ last'.calls = <<>>
              /\ last'.asked = <<>>
              /\ last'.deduped = <<>>
              /\ last'.optimized = <<>>
              /\ result_items' = result_items
              /\ aggregated_results' = aggregated_results]_vars

\* the second window of 2 of a persisted list of at least 3 entries was read
C31_Witness ==
  /\ last.op = "aggregated"
  /\ ~last.miss
  /\ last.request.count = 2
  /\ last.request.start = 3
  /\ Len(PersistedList(last.aggId)) >= 3
  /\ last.resp.results # <<>>
  /\ last.resp.results[1] = PersistedList(last.aggId)[3]

\* the step persists the set of a fingerprint that was not persisted
PersistsNewSet ==
  /\ last'.op = "aggregated"
  /\ ops' = ops + 1
  /\ last'.miss

\* C32: persisting the set of one fingerprint leaves the persisted items of
\* every other fingerprint as they were: the same rows in the same order, and
\* so the same totalResults
C32_OtherSetsUntouched ==
  [][PersistsNewSet =>
       \A aggId \in DOMAIN aggregated_results :
         aggId # last'.aggId =>
           /\ ItemsOf(result_items', aggId) = ItemsOf(result_items, aggId)
           /\ getTotalResults(result_items', aggId) = getTotalResults(result_items, aggId)]_vars

\* the rows that persisting a list for a fingerprint into an empty table makes
RowsOf(aggId, list) == InsertItems(<<>>, aggId, list)

\* the requests that have persisted their aggregation
Persisters == {p \in DOMAIN inflight : inflight[p].pc \in {"page", "total", "done"}
                                        /\ inflight[p].miss}

RankedRows(r) ==
  /\ \A i \in 1..(Len(r) - 1) :
       Known(r[i]) /\ Known(r[i + 1]) =>
         r[i].width * r[i].height >= r[i + 1].width * r[i + 1].height
  /\ \A i, j \in 1..Len(r) : i < j => ~(~Known(r[i]) /\ Known(r[j]))

\* C33: when requests for one fingerprint that is not persisted run together
\* and each fetches and persists, the list persisted for the fingerprint is the
\* whole deduplicated, ranked output of one of them, never a mixture: it has no
\* two entries with the same image url and is in rank order
C33_PersistedIsOneAggregation ==
  \A aggId \in DOMAIN aggregated_results :
    /\ \E p \in Persisters :
         /\ inflight[p].aggId = aggId
         /\ ItemsOf(result_items, aggId) = RowsOf(aggId, inflight[p].optimized)
    /\ NoDupUrls(ItemsOf(result_items, aggId))
    /\ RankedRows(ItemsOf(result_items, aggId))

\* two requests missed the fingerprint, got different lists and both persisted;
\* both have returned
C33_Witness ==
  /\ Len(inflight) >= 2
  /\ inflight[1].pc = "done" /\ inflight[2].pc = "done"
  /\ inflight[1].miss /\ inflight[2].miss
  /\ inflight[1].aggId = inflight[2].aggId
  /\ inflight[1].optimized # <<>>
  /\ inflight[2].optimized # <<>>
  /\ \E i \in 1..Len(inflight[1].optimized) :
       \A j \in 1..Len(inflight[2].optimized) :
         inflight[1].optimized[i].id # inflight[2].optimized[j].id
  /\ inflight[1].optimized # inflight[2].optimized

DifferOnlyInHint(a, b) == a.tbs # b.tbs /\ [a EXCEPT !.tbs = b.tbs] = b

\* C35: two requests that differ only in their quality hint (tbs) never share
\* a response-cache entry, so that a request with hint T is never answered with
\* a response computed for another hint
C35_HintSeparatesEntries ==
  /\ \A s1, s2 \in served :
       DifferOnlyInHint(s1.input, s2.input) => s1.cacheKey # s2.cacheKey
  /\ (last.op = "images" /\ last.cached) =>
       \A s \in served : s.cacheKey = last.cacheKey => s.input.tbs = last.input.tbs

\* C36: the list persisted for a fingerprint does not depend on the count or
\* start of the request that created it: for the same provider answers, first
\* requests that differ in count and start only persist the same list
C36_PersistedIgnoresPaging ==
  pout.done =>
    /\ pout.aggId[1] = pout.aggId[2]
    /\ pout.persisted[1] = pout.persisted[2]

\* C37: in every window, page-aligned start or not, hasNextPage implies
\* nextStartIndex = start + count <= totalResults, so that the page at
\* nextStartIndex is not empty, and hasPreviousPage implies
\* 1 <= previousStartIndex < start
C37_NextAndPreviousInRange ==
  pout.done =>
    \A a \in Adapters :
      LET w == pout.window[a]
      IN  /\ w.hasNextPage =>
               /\ w.nextStartIndex = pin.start + pin.count
               /\ w.nextStartIndex <= w.totalResults
          /\ w.hasPreviousPage =>
               /\ 1 <= w.previousStartIndex
               /\ w.previousStartIndex < pin.start

\* C38: from construction on, through every addSearchEngine, setDefaultEngine
\* and search, the default engine is a registered engine; setDefaultEngine with
\* a key that is not registered throws and leaves the default as it was
C38_DefaultIsRegistered ==
  /\ [](pout.built => pout.defaultEngine \in pout.searchEngines)
  /\ [][(last'.op = "setDefaultEngine" /\ ops' = ops + 1) =>
          /\ last'.thrown = (last'.engineKey \notin pout.searchEngines)
          /\ last'.thrown => pout' = pout
          /\ ~last'.thrown => pout'.defaultEngine = last'.engineKey]_vars

\* setDefaultEngine was called with a key that is not registered, on a service
\* whose default is the mock engine that the constructor fell back to
C38_Witness ==
  /\ last.op = "setDefaultEngine"
  /\ last.thrown
  /\ last.engineKey = "google"
  /\ pout.built
  /\ pout.defaultEngine = "mock"
  /\ pout.searchEngines = {"mock"}
  /\ ~pin.USE_OPTIMAL_SELECTION
  /\ ~pin.FALLBACK_TO_OPTIMAL

\* C39: a health request that names a provider is answered with the status of
\* exactly that provider, and healthy is true only if every provider of the
\* answer is healthy: a health result computed for another provider, or for
\* all providers, is never served from the cache to it
C39_HealthOfNamedProvider ==
  last.op = "health" =>
    /\ last.data.healthy => \A r \in last.data.engines : r.healthy
    /\ last.engine # "none" =>
         {r.key : r \in last.data.engines} = {last.engine}

\* the step is the first search of a user after that user cleared their cache,
\* for a request the user had made before
SearchAfterOwnClear ==
  /\ last.op = "clear"
  /\ last'.op = "images"
  /\ ops' = ops + 1
  /\ last'.input.userId = last.userId
  /\ \E s \in served : s.input = last'.input

\* the step is a clear
ClearStep == last'.op = "clear" /\ ops' = ops + 1

\* C40: after a user has cleared their cache, that user's next search for a
\* query searched before is not answered from data cached before the clear but
\* runs a new aggregation; the clear removes the aggregated sets that the user
\* owns and leaves the sets of other users as they were
C40_ClearForcesFreshSearch ==
  /\ [][SearchAfterOwnClear =>
          LET aggId == generateAggId(last'.input)
          IN  /\ ~last'.cached
              /\ aggId \notin DOMAIN aggregated_results
              /\ aggId \in DOMAIN aggregated_results'
              /\ aggregated_results'[aggId].created_at = now]_vars
  /\ [][ClearStep =>
          /\ \A aggId \in DOMAIN aggregated_results :
               IF aggregated_results[aggId].user_id = last'.userId
                 THEN /\ aggId \notin DOMAIN aggregated_results'
                      /\ ItemsOf(result_items', aggId) = <<>>
                 ELSE /\ aggId \in DOMAIN aggregated_results'
                      /\ aggregated_results'[aggId] = aggregated_results[aggId]
                      /\ ItemsOf(result_items', aggId) = ItemsOf(result_items, aggId)
          /\ DOMAIN aggregated_results' \subseteq DOMAIN aggregated_results]_vars

=============================================================================
